---- MODULE Spec2Model ----
(***************************************************************************)
(* A model of the gozod validation engine: the schema builders, the        *)
(* recursive Validate of the seven schema kinds, the refinement hooks and  *)
(* the failure collection with its path helpers.                           *)
(*                                                                         *)
(* Representation.                                                         *)
(*   - A Go value (any) is a record [t, v]: t is its dynamic type, v its   *)
(*     payload. Go strings that the code inspects are sequences of one-    *)
(*     character strings; map keys, path segments, codes and messages are  *)
(*     TLA+ strings. A float is the integer number of tenths it holds.     *)
(*     int64 is modelled at width 8 (MaxInt64 = 2^7 - 1).                  *)
(*   - A pointer-typed optional field of a schema (minLength, min, ...) is *)
(*     a sequence: <<>> is the nil pointer, <<x>> points at x.             *)
(*   - Validate returns the set of outcomes the build can produce: Go      *)
(*     leaves the iteration order of a map unspecified, so a Map or Struct *)
(*     schema has one outcome per order of its shape and of the input.     *)
(*     An outcome is [panicked, isNil, Errors, log]; log is the sequence   *)
(*     of calls the run made (children validated, hooks invoked).          *)
(***************************************************************************)
EXTENDS Integers, Sequences, FiniteSets, TLC

\* schema is the schema behind the reference the last builder call returned,
\* receiver the schema behind the reference that call was made on.
\* flat is what Flatten returned for the result.  threads are the goroutines
\* that validate against the schema at the same time, collections the
\* ValidationErrors values they have allocated.
VARIABLES schema, receiver, calls, pc, value, path, result, flat, threads, collections,
          fn, args, out,
          arrays, maps, caller, results, stored

\* The state of the path helper calls (PathSpec).
pathVars == <<fn, args, out>>

\* The storage behind slices and maps (StorageSpec).
storageVars == <<arrays, maps, caller, results, stored>>

vars == <<schema, receiver, calls, pc, value, path, result, flat, threads, collections,
          fn, args, out, arrays, maps, caller, results, stored>>

(***************************************************************************)
(* Bounds of the model.                                                    *)
(***************************************************************************)
\* The number of builder calls made on the root schema before Validate.
MaxBuild == 2

(***************************************************************************)
(* Error codes (errors.go).                                                *)
(***************************************************************************)
ErrCodeRequired == "required"
ErrCodeInvalidType == "invalid_type"
ErrCodeTooSmall == "too_small"
ErrCodeTooBig == "too_big"
ErrCodeInvalidString == "invalid_string"
ErrCodeInvalidEnumValue == "invalid_enum_value"
ErrCodeUnrecognizedKeys == "unrecognized_keys"
ErrCodeCustomValidation == "custom_validation"

BuiltinCodes ==
    { ErrCodeRequired, ErrCodeInvalidType, ErrCodeTooSmall, ErrCodeTooBig,
      ErrCodeInvalidString, ErrCodeInvalidEnumValue, ErrCodeUnrecognizedKeys,
      ErrCodeCustomValidation }

(***************************************************************************)
(* Go values.                                                              *)
(***************************************************************************)
Nil == [t |-> "nil", v |-> 0]
Str(chars) == [t |-> "string", v |-> chars]
IntV(kind, n) == [t |-> kind, v |-> n]
FloatV(kind, tenths) == [t |-> kind, v |-> tenths]
BoolV(b) == [t |-> "bool", v |-> b]
Slice(elems) == [t |-> "slice", v |-> elems]
\* A map, as MapSchema.Validate reads it: its keys rendered as text (%v).
MapV(m) == [t |-> "map", v |-> m]
\* A struct value: its type name and its fields in declaration order.
StructV(name, fields) == [t |-> "struct", v |-> [name |-> name, fields |-> fields]]
\* A pointer: elem is <<>> for the nil pointer, <<x>> when it points at x.
Ptr(name, elem) == [t |-> "ptr", v |-> [name |-> name, elem |-> elem]]

SignedKinds == {"int", "int8", "int16", "int32", "int64"}
UnsignedKinds == {"uint", "uint8", "uint16", "uint32", "uint64"}
FloatKinds == {"float32", "float64"}

\* The largest int64, at the model's width (9223372036854775807 in the code).
MaxInt64 == 127

\* strings.Join of one-character strings: the Go string as text.
RECURSIVE Text(_)
Text(chars) == IF chars = <<>> THEN "" ELSE chars[1] \o Text(Tail(chars))

\* fmt's %v of a float64 (shortest form): 25 tenths is "2.5", 30 tenths "3".
FormatFloat(n) ==
    LET a == IF n < 0 THEN -n ELSE n
    IN  (IF n < 0 THEN "-" ELSE "") \o ToString(a \div 10)
        \o (IF a % 10 = 0 THEN "" ELSE "." \o ToString(a % 10))

\* fmt's %T of a value.
TypeName(val) ==
    CASE val.t = "nil" -> "<nil>"
      [] val.t = "slice" -> "[]interface {}"
      [] val.t = "map" -> "map[string]interface {}"
      [] val.t = "struct" -> "gozod." \o val.v.name
      [] val.t = "ptr" -> "*" \o val.v.name
      [] OTHER -> val.t

(***************************************************************************)
(* Paths (errors.go).                                                      *)
(***************************************************************************)
\* A path segment is a string (a field name) or an int (an index); a caller
\* may also pass an int64 index (Index64 below).
Name(s) == [kind |-> "string", name |-> s, idx |-> 0]
Index(i) == [kind |-> "int", name |-> "", idx |-> i]

\* A variant of PathAppend that forgets the path it extends.
PathAppend_DropsParent(p, part) == <<part>>

PathAppend(p, part) == Append(p, part)

\* The names of the model that begin with "[" (strings.HasPrefix(name, "[")).
BracketNames == {"[k]"}

\* strings.HasPrefix(part, "["), for a rendered part.
HasBracketPrefix(part) == part.kind = "int" \/ part.text \in BracketNames

RECURSIVE JoinParts(_, _)
JoinParts(res, parts) ==
    IF parts = <<>> THEN res
    ELSE JoinParts(IF HasBracketPrefix(parts[1]) THEN res \o parts[1].text
                   ELSE res \o "." \o parts[1].text, Tail(parts))

PathToString(p) ==
    IF Len(p) = 0 THEN ""
    ELSE LET parts == [i \in 1..Len(p) |->
                         IF p[i].kind = "string"
                         THEN [kind |-> "string", text |-> p[i].name]
                         ELSE [kind |-> "int",
                               text |-> "[" \o ToString(p[i].idx) \o "]"]]
         IN  JoinParts(parts[1].text, Tail(parts))

(***************************************************************************)
(* The failure collection (errors.go).                                     *)
(***************************************************************************)
NoMeta == [isNil |-> TRUE, m |-> <<>>]
Meta(m) == [isNil |-> FALSE, m |-> m]

ValidationError(p, code, message, meta) ==
    [Path |-> p, Code |-> code, Message |-> message, Meta |-> meta]

\* errors is the run so far: [Errors, log, panicked].
NewErrors == [Errors |-> <<>>, log |-> <<>>, panicked |-> FALSE]

AddWithMeta(errors, p, code, message, meta) ==
    [errors EXCEPT !.Errors = Append(@, ValidationError(p, code, message, meta))]

Add(errors, p, code, message) == AddWithMeta(errors, p, code, message, NoMeta)

\* A call the run makes, recorded in order.
Event(op, name, p, val) == [op |-> op, name |-> name, path |-> p, val |-> val]

Log(errors, ev) == [errors EXCEPT !.log = Append(@, ev)]

\* The names whose text holds a match of the pattern \[(\d+)\], and the text
\* before the match.
IndexedNames == {"tags[0]"}
BeforeIndex(name) == CASE name = "tags[0]" -> "tags"

\* arrayIndexRegex matches inside the rendered text of the segment: "[%d]" of
\* a non-negative integer, or a name that holds such text itself.
MatchesIndex(part) ==
    \/ part.kind \in {"int", "int64"} /\ part.idx >= 0
    \/ part.kind = "string" /\ part.name \in IndexedNames

\* arrayIndexRegex.MatchString(pathStr)
HasIndexMatch(p) == \E k \in 1..Len(p) : MatchesIndex(p[k])

\* arrayIndexRegex.Split(pathStr, 2)[0]: the rendered text before the first
\* match.
baseField(p) ==
    LET k == CHOOSE i \in 1..Len(p) :
                 MatchesIndex(p[i]) /\ \A j \in 1..(i - 1) : ~MatchesIndex(p[j])
        before == SubSeq(p, 1, k - 1)
    IN  IF p[k].kind # "string" THEN PathToString(before)
        ELSE PathToString(Append(before, Name(BeforeIndex(p[k].name))))

FlattenErrorResult(formErrors, fieldErrors) ==
    [FormErrors |-> formErrors, FieldErrors |-> fieldErrors]

\* result.FieldErrors[key] = append(result.FieldErrors[key], message)
AppendField(fieldErrors, key, message) ==
    IF key \in DOMAIN fieldErrors
    THEN [fieldErrors EXCEPT ![key] = Append(@, message)]
    ELSE [k \in DOMAIN fieldErrors \cup {key} |->
             IF k = key THEN <<message>> ELSE fieldErrors[k]]

\* The loop of Flatten over e.Errors from its i-th entry on.
RECURSIVE FlattenFrom(_, _, _)
FlattenFrom(errs, i, res) ==
    IF i > Len(errs) THEN res
    ELSE LET err == errs[i]
             pathStr == PathToString(err.Path)
         IN  FlattenFrom(errs, i + 1,
                 IF pathStr = ""
                 THEN [res EXCEPT !.FormErrors = Append(@, err.Message)]
                 ELSE IF HasIndexMatch(err.Path)
                      THEN [res EXCEPT !.FieldErrors =
                                          AppendField(@, baseField(err.Path), err.Message)]
                      ELSE [res EXCEPT !.FieldErrors =
                                          AppendField(@, pathStr, err.Message)])

Flatten(e) == FlattenFrom(e.Errors, 1, FlattenErrorResult(<<>>, [k \in {} |-> <<>>]))

(***************************************************************************)
(* BaseSchema and the seven schema kinds: one record type, as every kind   *)
(* embeds BaseSchema; a field a kind does not have keeps its zero value.   *)
(***************************************************************************)
BaseSchema(kind) ==
    [ kind |-> kind,
      \* BaseSchema (schema.go)
      required |-> TRUE, nilable |-> FALSE,
      customErrors |-> {}, errorFormatter |-> <<>>,
      refinements |-> <<>>, superRefinements |-> <<>>,
      \* StringSchema; minLength and maxLength also ArraySchema
      minLength |-> <<>>, maxLength |-> <<>>, email |-> FALSE, url |-> FALSE,
      regex |-> <<>>, regexMessage |-> "", oneOf |-> <<>>, notOneOf |-> <<>>,
      startsWith |-> <<>>, endsWith |-> <<>>, includes |-> <<>>,
      \* IntSchema and FloatSchema
      min |-> <<>>, max |-> <<>>, positive |-> FALSE, negative |-> FALSE,
      nonNegative |-> FALSE, nonPositive |-> FALSE, multipleOf |-> <<>>,
      \* ArraySchema
      elementSchema |-> <<>>, nonEmpty |-> FALSE,
      \* MapSchema and StructSchema
      shape |-> <<>>, strict |-> FALSE ]

String == BaseSchema("string")
IntSchema == BaseSchema("int")
Float == BaseSchema("float")
Bool == BaseSchema("bool")
Array(elementSchema) == [BaseSchema("array") EXCEPT !.elementSchema = <<elementSchema>>]
Map(shape) == [BaseSchema("object") EXCEPT !.shape = shape]
Struct(shape) == [BaseSchema("struct") EXCEPT !.shape = shape]

ScalarKinds == {"string", "int", "float", "bool"}
CompositeKinds == {"array", "object", "struct"}

(***************************************************************************)
(* The hooks a caller can register. A RefineFunc is named; RefineFunc      *)
(* gives what the named function returns for a value.                      *)
(***************************************************************************)
IsZero(val) ==
    CASE val.t = "nil" -> TRUE
      [] val.t \in {"string", "slice"} -> val.v = <<>>
      [] val.t = "map" -> DOMAIN val.v = {}
      [] val.t = "bool" -> ~val.v
      [] val.t \in SignedKinds \cup UnsignedKinds \cup FloatKinds -> val.v = 0
      [] OTHER -> FALSE

RefineNames == {"ok", "fail", "failMsg", "nonZero"}

RefineFunc(name, val) ==
    CASE name = "ok" -> [valid |-> TRUE, message |-> ""]
      [] name = "fail" -> [valid |-> FALSE, message |-> ""]
      [] name = "failMsg" -> [valid |-> FALSE, message |-> "refined"]
      [] name = "nonZero" -> [valid |-> ~IsZero(val), message |-> "must not be zero"]

\* A SuperRefineFunc is the sequence of AddIssue / AddIssueWithMeta calls it
\* makes on its context.
Issue(rel, code, message) ==
    [rel |-> rel, code |-> code, message |-> message, meta |-> NoMeta, withMeta |-> FALSE]
IssueWithMeta(rel, code, message, meta) ==
    [rel |-> rel, code |-> code, message |-> message, meta |-> meta, withMeta |-> TRUE]

SuperRefineNames == {"none", "one", "many", "raw"}

SuperRefineFunc(name, val) ==
    CASE name = "none" -> <<>>
      [] name = "one" -> << Issue(<<>>, "mismatch", "Passwords do not match") >>
      [] name = "many" ->
           << Issue(<<Name("confirm")>>, "mismatch", "Passwords do not match"),
              IssueWithMeta(<<Name("items"), Index(2)>>, ErrCodeTooBig, "Duplicate value",
                            Meta([first |-> "1"])),
              Issue(<<>>, "checked", "Whole value rejected") >>
      [] name = "raw" -> << Issue(<<Name("tags[0]")>>, "", "") >>

FormatterNames == {"tagged"}

\* A CustomErrorFunc, by name.
CustomErrorFunc(name, p, code, defaultMessage) ==
    CASE name = "tagged" -> "[" \o PathToString(p) \o "] " \o code \o ": " \o defaultMessage

(***************************************************************************)
(* schema.go                                                               *)
(***************************************************************************)
\* A variant of getErrorMessage that consults the override table before the
\* formatter.
getErrorMessage_OverridesFirst(b, p, code, defaultMessage) ==
    IF \E c \in b.customErrors : c.code = code
    THEN (CHOOSE c \in b.customErrors : c.code = code).message
    ELSE IF b.errorFormatter # <<>>
         THEN CustomErrorFunc(b.errorFormatter[1], p, code, defaultMessage)
         ELSE defaultMessage

getErrorMessage(b, p, code, defaultMessage) ==
    IF b.errorFormatter # <<>>
    THEN CustomErrorFunc(b.errorFormatter[1], p, code, defaultMessage)
    ELSE IF \E c \in b.customErrors : c.code = code
         THEN (CHOOSE c \in b.customErrors : c.code = code).message
         ELSE defaultMessage

addRefinement(b, validator) == [b EXCEPT !.refinements = Append(@, validator)]

addSuperRefinement(b, validator) == [b EXCEPT !.superRefinements = Append(@, validator)]

\* One iteration of applyRefinements' loop.
applyRefinement(b, refine, val, p, errors) ==
    LET r == RefineFunc(refine, val)
        called == Log(errors, Event("refine", refine, p, val))
        message == IF r.message = ""
                   THEN getErrorMessage(b, p, ErrCodeCustomValidation, "Custom validation failed")
                   ELSE getErrorMessage(b, p, ErrCodeCustomValidation, r.message)
    IN  IF ~r.valid THEN Add(called, p, ErrCodeCustomValidation, message) ELSE called

\* A variant of the loop that breaks at the first refinement that fails.
RECURSIVE applyRefinementsFrom_StopsAtFailure(_, _, _, _, _)
applyRefinementsFrom_StopsAtFailure(b, i, val, p, errors) ==
    IF i > Len(b.refinements) THEN errors
    ELSE LET next == applyRefinement(b, b.refinements[i], val, p, errors)
         IN  IF Len(next.Errors) > Len(errors.Errors) THEN next
             ELSE applyRefinementsFrom_StopsAtFailure(b, i + 1, val, p, next)

RECURSIVE applyRefinementsFrom(_, _, _, _, _)
applyRefinementsFrom(b, i, val, p, errors) ==
    IF i > Len(b.refinements) THEN errors
    ELSE applyRefinementsFrom(b, i + 1, val, p,
                              applyRefinement(b, b.refinements[i], val, p, errors))

applyRefinements(b, val, p, errors) ==
    IF Len(b.refinements) = 0 THEN errors
    ELSE applyRefinementsFrom(b, 1, val, p, errors)

SuperRefineContext(errors, basePath, formatter) ==
    [errors |-> errors, basePath |-> basePath, formatter |-> formatter]

\* A variant of FullPath that forgets the base path.
FullPath_DropsBase(fullPath, rel) == rel

RECURSIVE FullPath(_, _)
FullPath(fullPath, rel) ==
    IF rel = <<>> THEN fullPath
    ELSE FullPath(PathAppend(fullPath, rel[1]), Tail(rel))

AddIssue(ctx, rel, code, message) ==
    [ctx EXCEPT !.errors = Add(@, FullPath(ctx.basePath, rel), code, message)]

AddIssueWithMeta(ctx, rel, code, message, meta) ==
    [ctx EXCEPT !.errors = AddWithMeta(@, FullPath(ctx.basePath, rel), code, message, meta)]

\* The body of a SuperRefineFunc: its calls on ctx, in order.
RECURSIVE RunIssues(_, _)
RunIssues(ctx, issues) ==
    IF issues = <<>> THEN ctx
    ELSE RunIssues(IF issues[1].withMeta
                   THEN AddIssueWithMeta(ctx, issues[1].rel, issues[1].code,
                                         issues[1].message, issues[1].meta)
                   ELSE AddIssue(ctx, issues[1].rel, issues[1].code, issues[1].message),
                   Tail(issues))

\* One iteration of applySuperRefinements' loop.
applySuperRefinement(b, superRefine, val, p, errors) ==
    LET ctx == SuperRefineContext(Log(errors, Event("superRefine", superRefine, p, val)),
                                  p, b.errorFormatter)
    IN  RunIssues(ctx, SuperRefineFunc(superRefine, val)).errors

RECURSIVE applySuperRefinementsFrom(_, _, _, _, _)
applySuperRefinementsFrom(b, i, val, p, errors) ==
    IF i > Len(b.superRefinements) THEN errors
    ELSE applySuperRefinementsFrom(b, i + 1, val, p,
             applySuperRefinement(b, b.superRefinements[i], val, p, errors))

applySuperRefinements(b, val, p, errors) ==
    IF Len(b.superRefinements) = 0 THEN errors
    ELSE applySuperRefinementsFrom(b, 1, val, p, errors)

(***************************************************************************)
(* What Validate hands back.                                               *)
(***************************************************************************)
\* return errors
Return(errors) ==
    [panicked |-> FALSE, isNil |-> FALSE, Errors |-> errors.Errors, log |-> errors.log]

\* return nil
ReturnNil(errors) ==
    [panicked |-> FALSE, isNil |-> TRUE, Errors |-> <<>>, log |-> errors.log]

\* A run-time panic leaves Validate without a return value.
Panic(errors) ==
    [panicked |-> TRUE, isNil |-> FALSE, Errors |-> <<>>, log |-> errors.log]

\* A variant of Finish without the length test: it returns the collection
\* even when it is empty.
Finish_ReturnsEmpty(errors) ==
    IF errors.panicked THEN Panic(errors) ELSE Return(errors)

\* if len(errors.Errors) == 0 { return nil }; return errors
Finish(errors) ==
    IF errors.panicked THEN Panic(errors)
    ELSE IF Len(errors.Errors) = 0 THEN ReturnNil(errors) ELSE Return(errors)

\* A variant of RequiredOrNil that does not look at nilable.
RequiredOrNil_IgnoresNilable(s, p, errors) ==
    Return(Add(errors, p, ErrCodeRequired, getErrorMessage(s, p, ErrCodeRequired, "Required")))

\* if !s.nilable { ...; return errors }; return nil: the body of the nil check
\* every Validate opens with.
RequiredOrNil(s, p, errors) ==
    IF ~s.nilable
    THEN Return(Add(errors, p, ErrCodeRequired, getErrorMessage(s, p, ErrCodeRequired, "Required")))
    ELSE ReturnNil(errors)

\* A variant of the close of Validate that runs the hooks only when no
\* built-in check has failed.
HooksAndReturn_OnlyWhenClean(s, val, p, errors) ==
    IF errors.Errors = <<>>
    THEN Finish(applySuperRefinements(s, val, p, applyRefinements(s, val, p, errors)))
    ELSE Finish(errors)

\* A variant of the close of Validate that runs the super-refinements before
\* the simple refinements.
HooksAndReturn_SuperFirst(s, val, p, errors) ==
    Finish(applyRefinements(s, val, p, applySuperRefinements(s, val, p, errors)))

\* applyRefinements, applySuperRefinements and the return every Validate
\* closes with.
HooksAndReturn(s, val, p, errors) ==
    Finish(applySuperRefinements(s, val, p, applyRefinements(s, val, p, errors)))

(***************************************************************************)
(* The strings and regexp packages, on sequences of characters.            *)
(***************************************************************************)
HasPrefix(str, prefix) ==
    Len(prefix) <= Len(str) /\ SubSeq(str, 1, Len(prefix)) = prefix

HasSuffix(str, suffix) ==
    Len(suffix) <= Len(str)
    /\ SubSeq(str, Len(str) - Len(suffix) + 1, Len(str)) = suffix

Contains(str, substr) ==
    \E i \in 0..(Len(str) - Len(substr)) : SubSeq(str, i + 1, i + Len(substr)) = substr

RECURSIVE Join(_, _)
Join(strs, sep) ==
    IF strs = <<>> THEN ""
    ELSE IF Len(strs) = 1 THEN Text(strs[1])
    ELSE Text(strs[1]) \o sep \o Join(Tail(strs), sep)

Alphabet == <<"a", "b", "c", "d", "e", "f", "g", "h", "i", "j", "k", "l", "m",
              "n", "o", "p", "q", "r", "s", "t", "u", "v", "w", "x", "y", "z">>
Capitals == <<"A", "B", "C", "D", "E", "F", "G", "H", "I", "J", "K", "L", "M",
              "N", "O", "P", "Q", "R", "S", "T", "U", "V", "W", "X", "Y", "Z">>
Lower == {Alphabet[i] : i \in DOMAIN Alphabet}
Upper == {Capitals[i] : i \in DOMAIN Capitals}

\* strings.ToLower of one character.
ToLower(c) ==
    IF c \in Upper THEN Alphabet[CHOOSE i \in DOMAIN Capitals : Capitals[i] = c] ELSE c

\* strings.Index(str, c): the first position of c (from 0), or -1.
IndexOf(str, c) ==
    IF \E i \in 1..Len(str) : str[i] = c
    THEN (CHOOSE i \in 1..Len(str) : str[i] = c /\ \A j \in 1..(i - 1) : str[j] # c) - 1
    ELSE -1
Digit == {"0", "1", "2", "3", "4", "5", "6", "7", "8", "9"}
Space == {" ", "\t", "\n", "\f", "\r"}

AllIn(str, class) == \A i \in 1..Len(str) : str[i] \in class

\* ^[a-zA-Z0-9._%+\-]+@[a-zA-Z0-9.\-]+\.[a-zA-Z]{2,}$
emailRegex(str) ==
    \E at \in 1..Len(str), dot \in 1..Len(str) :
        /\ 1 < at /\ at + 1 < dot /\ dot + 2 <= Len(str)
        /\ AllIn(SubSeq(str, 1, at - 1),
                 Lower \cup Upper \cup Digit \cup {".", "_", "%", "+", "-"})
        /\ str[at] = "@"
        /\ AllIn(SubSeq(str, at + 1, dot - 1), Lower \cup Upper \cup Digit \cup {".", "-"})
        /\ str[dot] = "."
        /\ AllIn(SubSeq(str, dot + 1, Len(str)), Lower \cup Upper)

\* ^https?://[^\s/$.?#].[^\s]*$
urlRegex(str) ==
    \E n \in {7, 8} :
        /\ HasPrefix(str, IF n = 7 THEN <<"h", "t", "t", "p", ":", "/", "/">>
                          ELSE <<"h", "t", "t", "p", "s", ":", "/", "/">>)
        /\ Len(str) >= n + 2
        /\ str[n + 1] \notin Space \cup {"/", "$", ".", "?", "#"}
        /\ str[n + 2] # "\n"
        /\ \A i \in (n + 3)..Len(str) : str[i] \notin Space

\* The patterns a caller passes to Regex, and regexp.Compile on them.
Patterns == {"^[a-z]+$", "[0-9]", "("}

Compiles(pattern) == pattern # "("

MatchString(pattern, str) ==
    CASE pattern = "^[a-z]+$" -> Len(str) >= 1 /\ AllIn(str, Lower)
      [] pattern = "[0-9]" -> \E i \in 1..Len(str) : str[i] \in Digit

(***************************************************************************)
(* string.go                                                               *)
(***************************************************************************)
StringSchema_Validate(s, val, p) ==
    LET errors == NewErrors
    IN
    IF val.t = "nil" THEN RequiredOrNil(s, p, errors)
    ELSE IF val.t # "string"
    THEN Return(Add(errors, p, ErrCodeInvalidType,
                    getErrorMessage(s, p, ErrCodeInvalidType,
                                    "Expected string, got " \o TypeName(val))))
    ELSE
    LET str == val.v
        e0 == Log(errors, Event("typed", "string", p, val))
        e1 == IF s.minLength # <<>> /\ Len(str) < s.minLength[1]
              THEN Add(e0, p, ErrCodeTooSmall,
                       getErrorMessage(s, p, ErrCodeTooSmall,
                           "String must be at least " \o ToString(s.minLength[1])
                           \o " character(s) long, got " \o ToString(Len(str))))
              ELSE e0
        e2 == IF s.maxLength # <<>> /\ Len(str) > s.maxLength[1]
              THEN Add(e1, p, ErrCodeTooBig,
                       getErrorMessage(s, p, ErrCodeTooBig,
                           "String must be at most " \o ToString(s.maxLength[1])
                           \o " character(s) long, got " \o ToString(Len(str))))
              ELSE e1
        e3 == IF s.email /\ ~emailRegex(str)
              THEN Add(e2, p, ErrCodeInvalidString,
                       getErrorMessage(s, p, ErrCodeInvalidString, "Invalid email format"))
              ELSE e2
        e4 == IF s.url /\ ~urlRegex(str)
              THEN Add(e3, p, ErrCodeInvalidString,
                       getErrorMessage(s, p, ErrCodeInvalidString, "Invalid URL format"))
              ELSE e3
        e5 == IF s.regex # <<>> /\ ~MatchString(s.regex[1], str)
              THEN Add(e4, p, ErrCodeInvalidString,
                       IF s.regexMessage = ""
                       THEN getErrorMessage(s, p, ErrCodeInvalidString,
                                            "String does not match required pattern")
                       ELSE s.regexMessage)
              ELSE e4
        e6 == IF Len(s.oneOf) > 0 /\ ~(\E i \in 1..Len(s.oneOf) : str = s.oneOf[i])
              THEN Add(e5, p, ErrCodeInvalidEnumValue,
                       getErrorMessage(s, p, ErrCodeInvalidEnumValue,
                           "String must be one of: " \o Join(s.oneOf, ", ")))
              ELSE e5
        e7 == IF Len(s.notOneOf) > 0 /\ (\E i \in 1..Len(s.notOneOf) : str = s.notOneOf[i])
              THEN Add(e6, p, ErrCodeInvalidEnumValue,
                       getErrorMessage(s, p, ErrCodeInvalidEnumValue,
                           "String must not be one of: " \o Join(s.notOneOf, ", ")))
              ELSE e6
        e8 == IF s.startsWith # <<>> /\ ~HasPrefix(str, s.startsWith[1])
              THEN Add(e7, p, ErrCodeInvalidString,
                       getErrorMessage(s, p, ErrCodeInvalidString,
                           "String must start with '" \o Text(s.startsWith[1]) \o "'"))
              ELSE e7
        e9 == IF s.endsWith # <<>> /\ ~HasSuffix(str, s.endsWith[1])
              THEN Add(e8, p, ErrCodeInvalidString,
                       getErrorMessage(s, p, ErrCodeInvalidString,
                           "String must end with '" \o Text(s.endsWith[1]) \o "'"))
              ELSE e8
        e10 == IF s.includes # <<>> /\ ~Contains(str, s.includes[1])
               THEN Add(e9, p, ErrCodeInvalidString,
                        getErrorMessage(s, p, ErrCodeInvalidString,
                            "String must include '" \o Text(s.includes[1]) \o "'"))
               ELSE e9
    IN  HooksAndReturn(s, val, p, e10)

(***************************************************************************)
(* int.go and float.go                                                     *)
(***************************************************************************)
Abs(n) == IF n < 0 THEN -n ELSE n
Sign(n) == IF n < 0 THEN -1 ELSE 1

\* Go's integer division and remainder truncate toward zero.
TruncDiv(a, b) == Sign(a) * Sign(b) * (Abs(a) \div Abs(b))
TruncRem(a, b) == a - b * TruncDiv(a, b)

\* int64(v) of an unsigned v: two's complement, so a v above MaxInt64 wraps.
ToInt64(n) == IF n > MaxInt64 THEN n - 2 * (MaxInt64 + 1) ELSE n

\* fmt's %v of the number a schema kind validates.
FormatNumber(s, n) == IF s.kind = "float" THEN FormatFloat(n) ELSE ToString(n)

\* The checks Min .. NonPositive, which IntSchema.Validate and
\* FloatSchema.Validate (float.go, lines 133-167) hold word for word.
NumberChecks(s, num, p, e0) ==
    LET fmtV(n) == FormatNumber(s, n)
        e1 == IF s.min # <<>> /\ num < s.min[1]
              THEN Add(e0, p, ErrCodeTooSmall,
                       getErrorMessage(s, p, ErrCodeTooSmall,
                           "Number must be greater than or equal to " \o fmtV(s.min[1])
                           \o ", got " \o fmtV(num)))
              ELSE e0
        e2 == IF s.max # <<>> /\ num > s.max[1]
              THEN Add(e1, p, ErrCodeTooBig,
                       getErrorMessage(s, p, ErrCodeTooBig,
                           "Number must be less than or equal to " \o fmtV(s.max[1])
                           \o ", got " \o fmtV(num)))
              ELSE e1
        e3 == IF s.positive /\ num <= 0
              THEN Add(e2, p, ErrCodeTooSmall,
                       getErrorMessage(s, p, ErrCodeTooSmall,
                           "Number must be positive (> 0), got " \o fmtV(num)))
              ELSE e2
        e4 == IF s.negative /\ num >= 0
              THEN Add(e3, p, ErrCodeTooBig,
                       getErrorMessage(s, p, ErrCodeTooBig,
                           "Number must be negative (< 0), got " \o fmtV(num)))
              ELSE e3
        e5 == IF s.nonNegative /\ num < 0
              THEN Add(e4, p, ErrCodeTooSmall,
                       getErrorMessage(s, p, ErrCodeTooSmall,
                           "Number must be non-negative (>= 0), got " \o fmtV(num)))
              ELSE e4
        e6 == IF s.nonPositive /\ num > 0
              THEN Add(e5, p, ErrCodeTooBig,
                       getErrorMessage(s, p, ErrCodeTooBig,
                           "Number must be non-positive (<= 0), got " \o fmtV(num)))
              ELSE e5
    IN  e6

\* if num%*s.multipleOf != 0 { ... }: the remainder by zero is a run-time panic.
IntMultipleOf(s, num, p, errors) ==
    IF s.multipleOf = <<>> THEN errors
    ELSE IF s.multipleOf[1] = 0 THEN [errors EXCEPT !.panicked = TRUE]
    ELSE IF TruncRem(num, s.multipleOf[1]) # 0
    THEN Add(errors, p, ErrCodeInvalidType,
             getErrorMessage(s, p, ErrCodeInvalidType,
                 "Number must be a multiple of " \o ToString(s.multipleOf[1])
                 \o ", got " \o ToString(num)))
    ELSE errors

IntSchema_Validate(s, val, p) ==
    LET errors == NewErrors
        floatMsg == getErrorMessage(s, p, ErrCodeInvalidType, "Expected integer, got float")
        typeMsg == getErrorMessage(s, p, ErrCodeInvalidType,
                                   "Expected integer, got " \o TypeName(val))
    IN
    IF val.t = "nil" THEN RequiredOrNil(s, p, errors)
    ELSE IF val.t = "uint64" /\ val.v > MaxInt64
    THEN Return(Add(errors, p, ErrCodeInvalidType, typeMsg))
    ELSE IF val.t \in FloatKinds
    THEN Return(Add(errors, p, ErrCodeInvalidType, floatMsg))
    ELSE IF val.t \notin SignedKinds \cup UnsignedKinds
    THEN Return(Add(errors, p, ErrCodeInvalidType, typeMsg))
    ELSE
    LET num == IF val.t \in SignedKinds THEN val.v ELSE ToInt64(val.v)
        e0 == Log(errors, Event("typed", "int", p, val))
        e6 == NumberChecks(s, num, p, e0)
        e7 == IntMultipleOf(s, num, p, e6)
    IN  IF e7.panicked THEN Panic(e7) ELSE HooksAndReturn(s, val, p, e7)

\* The tolerance window of FloatSchema's MultipleOf: 0.0001 and 0.9999.
TolLow == 1
TolHigh == 9999
TolDen == 10000

\* remainder := num / d; fractional part remainder - float64(int64(remainder)),
\* in exact arithmetic: int64() truncates, so the fraction has the sign of the
\* quotient. A zero divisor gives an infinite or NaN quotient, which no
\* comparison of the window accepts as inside it.
FloatMultipleOf(s, num, p, errors) ==
    IF s.multipleOf = <<>> \/ s.multipleOf[1] = 0 THEN errors
    ELSE
    LET d == s.multipleOf[1]
        fracNum == TruncRem(num, d) * Sign(d)
        fracDen == Abs(d)
    IN  IF fracNum * TolDen > TolLow * fracDen /\ fracNum * TolDen < TolHigh * fracDen
        THEN Add(errors, p, ErrCodeInvalidType,
                 getErrorMessage(s, p, ErrCodeInvalidType,
                     "Number must be a multiple of " \o FormatFloat(d)
                     \o ", got " \o FormatFloat(num)))
        ELSE errors

\* A variant of FloatSchema.Validate that widens an integer to a float
\* instead of rejecting it.
FloatSchema_Validate_Widens(s, val, p) ==
    LET errors == NewErrors
    IN
    IF val.t = "nil" THEN RequiredOrNil(s, p, errors)
    ELSE IF val.t \notin SignedKinds \cup UnsignedKinds \cup FloatKinds
    THEN Return(Add(errors, p, ErrCodeInvalidType,
                    getErrorMessage(s, p, ErrCodeInvalidType,
                                    "Expected float, got " \o TypeName(val))))
    ELSE
    LET num == IF val.t \in FloatKinds THEN val.v ELSE 10 * val.v
        e0 == Log(errors, Event("typed", "float", p, val))
        e6 == NumberChecks(s, num, p, e0)
        e7 == FloatMultipleOf(s, num, p, e6)
    IN  HooksAndReturn(s, val, p, e7)

FloatSchema_Validate(s, val, p) ==
    LET errors == NewErrors
    IN
    IF val.t = "nil" THEN RequiredOrNil(s, p, errors)
    ELSE IF val.t \in SignedKinds \cup UnsignedKinds
    THEN Return(Add(errors, p, ErrCodeInvalidType,
                    getErrorMessage(s, p, ErrCodeInvalidType, "Expected float, got integer")))
    ELSE IF val.t \notin FloatKinds
    THEN Return(Add(errors, p, ErrCodeInvalidType,
                    getErrorMessage(s, p, ErrCodeInvalidType,
                                    "Expected float, got " \o TypeName(val))))
    ELSE
    LET num == val.v
        e0 == Log(errors, Event("typed", "float", p, val))
        e6 == NumberChecks(s, num, p, e0)
        e7 == FloatMultipleOf(s, num, p, e6)
    IN  HooksAndReturn(s, val, p, e7)

(***************************************************************************)
(* bool.go                                                                 *)
(***************************************************************************)
BoolSchema_Validate(s, val, p) ==
    LET errors == NewErrors
    IN
    IF val.t = "nil" THEN RequiredOrNil(s, p, errors)
    ELSE IF val.t # "bool"
    THEN Return(Add(errors, p, ErrCodeInvalidType,
                    getErrorMessage(s, p, ErrCodeInvalidType,
                                    "Expected boolean, got " \o TypeName(val))))
    ELSE HooksAndReturn(s, val, p, Log(errors, Event("typed", "bool", p, val)))

(***************************************************************************)
(* Composite schemas. Validate is the Schema interface's method: it        *)
(* dispatches on the schema's kind. A child's outcome is absorbed into the *)
(* parent's run; a child's panic unwinds the parent.                       *)
(***************************************************************************)
\* schema.Validate(val, p) was called on a child.
Called(errors, child, p, val) == Log(errors, Event("validate", child.kind, p, val))

\* if childErrors != nil { errors.Errors = append(errors.Errors, childErrors.Errors...) }
Absorb(errors, r) ==
    [ Errors |-> IF r.panicked \/ r.isNil THEN errors.Errors ELSE errors.Errors \o r.Errors,
      log |-> errors.log \o r.log,
      panicked |-> r.panicked ]

\* The orders in which a range over a map with key set S can visit its keys.
Orders(S) ==
    { o \in [1..Cardinality(S) -> S] : \A i, j \in 1..Cardinality(S) : o[i] = o[j] => i = j }

\* The hooks and the return, unless the run has panicked.
Complete(s, val, p, errors) ==
    IF errors.panicked THEN Panic(errors) ELSE HooksAndReturn(s, val, p, errors)

RECURSIVE Validate(_, _, _)

(***************************************************************************)
(* array.go                                                                *)
(***************************************************************************)
\* A variant of the length checks written as an else-if chain: the first
\* check that fails ends them.
ArrayLengths_StopsAtFirst(s, slice, p, e0) ==
    IF s.nonEmpty /\ Len(slice) = 0
    THEN Add(e0, p, ErrCodeTooSmall,
             getErrorMessage(s, p, ErrCodeTooSmall, "Array must not be empty"))
    ELSE IF s.minLength # <<>> /\ Len(slice) < s.minLength[1]
    THEN Add(e0, p, ErrCodeTooSmall,
             getErrorMessage(s, p, ErrCodeTooSmall,
                 "Array must have at least " \o ToString(s.minLength[1])
                 \o " element(s), got " \o ToString(Len(slice))))
    ELSE IF s.maxLength # <<>> /\ Len(slice) > s.maxLength[1]
    THEN Add(e0, p, ErrCodeTooBig,
             getErrorMessage(s, p, ErrCodeTooBig,
                 "Array must have at most " \o ToString(s.maxLength[1])
                 \o " element(s), got " \o ToString(Len(slice))))
    ELSE e0

ArrayLengths(s, slice, p, e0) ==
    LET e1 == IF s.nonEmpty /\ Len(slice) = 0
              THEN Add(e0, p, ErrCodeTooSmall,
                       getErrorMessage(s, p, ErrCodeTooSmall, "Array must not be empty"))
              ELSE e0
        e2 == IF s.minLength # <<>> /\ Len(slice) < s.minLength[1]
              THEN Add(e1, p, ErrCodeTooSmall,
                       getErrorMessage(s, p, ErrCodeTooSmall,
                           "Array must have at least " \o ToString(s.minLength[1])
                           \o " element(s), got " \o ToString(Len(slice))))
              ELSE e1
        e3 == IF s.maxLength # <<>> /\ Len(slice) > s.maxLength[1]
              THEN Add(e2, p, ErrCodeTooBig,
                       getErrorMessage(s, p, ErrCodeTooBig,
                           "Array must have at most " \o ToString(s.maxLength[1])
                           \o " element(s), got " \o ToString(Len(slice))))
              ELSE e2
    IN  e3

\* A variant of the element loop that returns at the first element that fails.
RECURSIVE ArrayElements_StopsAtFailure(_, _, _, _, _)
ArrayElements_StopsAtFailure(s, slice, p, i, errors) ==
    IF i > Len(slice) \/ errors.panicked \/ errors.Errors # <<>> THEN {errors}
    ELSE LET elementPath == PathAppend(p, Index(i - 1))
             called == Called(errors, s.elementSchema[1], elementPath, slice[i])
         IN  UNION { ArrayElements_StopsAtFailure(s, slice, p, i + 1, Absorb(called, elementErrors)) :
                       elementErrors \in Validate(s.elementSchema[1], slice[i], elementPath) }

\* for i, element := range slice { ... }, from element i on (i counts from 1 here,
\* the path holds the Go index i - 1): the runs the loop can end in.
RECURSIVE ArrayElements(_, _, _, _, _)
ArrayElements(s, slice, p, i, errors) ==
    IF i > Len(slice) \/ errors.panicked THEN {errors}
    ELSE LET elementPath == PathAppend(p, Index(i - 1))
             called == Called(errors, s.elementSchema[1], elementPath, slice[i])
         IN  UNION { ArrayElements(s, slice, p, i + 1, Absorb(called, elementErrors)) :
                       elementErrors \in Validate(s.elementSchema[1], slice[i], elementPath) }

ArraySchema_Validate(s, val, p) ==
    LET errors == NewErrors
    IN
    IF val.t = "nil" THEN {RequiredOrNil(s, p, errors)}
    ELSE IF val.t # "slice"
    THEN {Return(Add(errors, p, ErrCodeInvalidType,
                     getErrorMessage(s, p, ErrCodeInvalidType,
                                     "Expected array, got " \o TypeName(val))))}
    ELSE
    LET slice == val.v
        e3 == ArrayLengths(s, slice, p, Log(errors, Event("typed", "array", p, val)))
    IN  { Complete(s, val, p, e) : e \in ArrayElements(s, slice, p, 1, e3) }

(***************************************************************************)
(* map.go                                                                  *)
(***************************************************************************)
\* A variant of the field loop that skips a key the input lacks.
RECURSIVE MapFields_SkipsMissing(_, _, _, _, _, _)
MapFields_SkipsMissing(s, obj, p, order, i, errors) ==
    IF i > Len(order) \/ errors.panicked THEN {errors}
    ELSE LET fieldName == order[i]
             fieldPath == PathAppend(p, Name(fieldName))
             called == Called(errors, s.shape[fieldName], fieldPath, obj[fieldName])
         IN  IF fieldName \notin DOMAIN obj
             THEN MapFields_SkipsMissing(s, obj, p, order, i + 1, errors)
             ELSE UNION { MapFields_SkipsMissing(s, obj, p, order, i + 1,
                                                 Absorb(called, fieldErrors)) :
                            fieldErrors \in Validate(s.shape[fieldName], obj[fieldName], fieldPath) }

\* A variant of the range over the shape that ends at the first field that
\* fails.
RECURSIVE MapFields_StopsAtFailure(_, _, _, _, _, _)
MapFields_StopsAtFailure(s, obj, p, order, i, errors) ==
    IF i > Len(order) \/ errors.panicked \/ errors.Errors # <<>> THEN {errors}
    ELSE LET fieldName == order[i]
             fieldPath == PathAppend(p, Name(fieldName))
             exists == fieldName \in DOMAIN obj
             fieldValue == IF exists THEN obj[fieldName] ELSE Nil
             called == Called(errors, s.shape[fieldName], fieldPath, fieldValue)
         IN  UNION { MapFields_StopsAtFailure(s, obj, p, order, i + 1,
                                              Absorb(called, fieldErrors)) :
                       fieldErrors \in Validate(s.shape[fieldName], fieldValue, fieldPath) }

\* A variant of the range over the shape in which a field's schema takes over
\* the message overrides and the formatter of the Map schema.
RECURSIVE MapFields_InheritsMessages(_, _, _, _, _, _)
MapFields_InheritsMessages(s, obj, p, order, i, errors) ==
    IF i > Len(order) \/ errors.panicked THEN {errors}
    ELSE LET fieldName == order[i]
             fieldPath == PathAppend(p, Name(fieldName))
             exists == fieldName \in DOMAIN obj
             fieldValue == IF exists THEN obj[fieldName] ELSE Nil
             called == Called(errors, s.shape[fieldName], fieldPath, fieldValue)
             inherited == [s.shape[fieldName] EXCEPT !.customErrors = s.customErrors,
                                                     !.errorFormatter = s.errorFormatter]
         IN  UNION { MapFields_InheritsMessages(s, obj, p, order, i + 1,
                                                Absorb(called, fieldErrors)) :
                       fieldErrors \in Validate(inherited, fieldValue, fieldPath) }

\* for fieldName, schema := range s.shape { ... }, visiting the keys in order
\* from its i-th on.
RECURSIVE MapFields(_, _, _, _, _, _)
MapFields(s, obj, p, order, i, errors) ==
    IF i > Len(order) \/ errors.panicked THEN {errors}
    ELSE LET fieldName == order[i]
             fieldPath == PathAppend(p, Name(fieldName))
             exists == fieldName \in DOMAIN obj
             fieldValue == IF exists THEN obj[fieldName] ELSE Nil
             called == Called(errors, s.shape[fieldName], fieldPath, fieldValue)
         IN  UNION { MapFields(s, obj, p, order, i + 1, Absorb(called, fieldErrors)) :
                       fieldErrors \in Validate(s.shape[fieldName], fieldValue, fieldPath) }

\* for key := range obj { if _, exists := s.shape[key]; !exists { ... } }
RECURSIVE MapUnknownKeys(_, _, _, _, _)
MapUnknownKeys(s, p, order, i, errors) ==
    IF i > Len(order) THEN errors
    ELSE LET key == order[i]
             keyPath == PathAppend(p, Name(key))
         IN  MapUnknownKeys(s, p, order, i + 1,
                 IF key \notin DOMAIN s.shape
                 THEN Add(errors, keyPath, ErrCodeUnrecognizedKeys,
                          getErrorMessage(s, keyPath, ErrCodeUnrecognizedKeys,
                                          "Unrecognized key '" \o key \o "'"))
                 ELSE errors)

\* A variant of the strict scan that runs whether or not the schema is strict.
MapStrict_Always(s, obj, p, errors) ==
    IF ~errors.panicked
    THEN { MapUnknownKeys(s, p, order, 1, errors) : order \in Orders(DOMAIN obj) }
    ELSE {errors}

MapStrict(s, obj, p, errors) ==
    IF s.strict /\ ~errors.panicked
    THEN { MapUnknownKeys(s, p, order, 1, errors) : order \in Orders(DOMAIN obj) }
    ELSE {errors}

MapSchema_Validate(s, val, p) ==
    LET errors == NewErrors
    IN
    IF val.t = "nil" THEN {RequiredOrNil(s, p, errors)}
    ELSE IF val.t # "map"
    THEN {Return(Add(errors, p, ErrCodeInvalidType,
                     getErrorMessage(s, p, ErrCodeInvalidType,
                                     "Expected map, got " \o TypeName(val))))}
    ELSE
    LET obj == val.v
        e0 == Log(errors, Event("typed", "object", p, val))
        fields == UNION { MapFields(s, obj, p, order, 1, e0) : order \in Orders(DOMAIN s.shape) }
    IN  { Complete(s, val, p, e) : e \in UNION { MapStrict(s, obj, p, f) : f \in fields } }

\* isEmptyValue (map.go): the zero value of a type.
RECURSIVE isEmptyValue(_)
isEmptyValue(val) ==
    CASE val.t = "nil" -> TRUE
      [] val.t = "string" -> Len(val.v) = 0
      [] val.t = "slice" -> Len(val.v) = 0
      [] val.t = "map" -> DOMAIN val.v = {}
      [] val.t = "ptr" -> val.v.elem = <<>>
      [] val.t = "bool" -> ~val.v
      [] val.t = "struct" ->
           \A i \in 1..Len(val.v.fields) :
               IF val.v.fields[i].IsPtr THEN val.v.fields[i].Value = Nil
               ELSE isEmptyValue(val.v.fields[i].Value)
      [] OTHER -> val.v = 0

(***************************************************************************)
(* struct.go                                                               *)
(***************************************************************************)
\* A struct field: its Go name and json tag as characters, whether its type
\* is a pointer, and its value (for a pointer field: Nil, or what it points at).
Field(name, tag, isPtr, val) == [Name |-> name, Tag |-> tag, IsPtr |-> isPtr, Value |-> val]

IsExported(field) == field.Name[1] \in Upper

omitemptyWord == <<"o", "m", "i", "t", "e", "m", "p", "t", "y">>

getStructFieldName(field) ==
    LET jsonTag == field.Tag
        idx == IndexOf(jsonTag, ",")
    IN  IF jsonTag # <<>> /\ jsonTag # <<"-">>
        THEN IF idx # -1 THEN Text(SubSeq(jsonTag, 1, idx)) ELSE Text(jsonTag)
        ELSE IF Len(field.Name) > 0
             THEN Text(<<ToLower(field.Name[1])>> \o Tail(field.Name))
             ELSE Text(field.Name)

\* fieldMap: the exported fields by schema name; a later field of the same
\* name replaces an earlier one.
FieldMapNames(fields) ==
    { getStructFieldName(fields[i]) : i \in {j \in 1..Len(fields) : IsExported(fields[j])} }

FieldMapGet(fields, name) ==
    fields[CHOOSE i \in 1..Len(fields) :
              /\ IsExported(fields[i]) /\ getStructFieldName(fields[i]) = name
              /\ \A j \in (i + 1)..Len(fields) :
                     ~(IsExported(fields[j]) /\ getStructFieldName(fields[j]) = name)]

\* The value of a struct field handed to its schema.
StructFieldInterface(structField) ==
    LET fieldInterface == IF structField.IsPtr /\ structField.Value = Nil THEN Nil
                          ELSE structField.Value
        hasOmitempty == Contains(structField.Tag, omitemptyWord)
    IN  IF hasOmitempty /\ isEmptyValue(fieldInterface) THEN Nil ELSE fieldInterface

\* for schemaFieldName, schema := range s.shape { ... }
RECURSIVE StructFields(_, _, _, _, _, _)
StructFields(s, fields, p, order, i, errors) ==
    IF i > Len(order) \/ errors.panicked THEN {errors}
    ELSE LET schemaFieldName == order[i]
             fieldPath == PathAppend(p, Name(schemaFieldName))
             exists == schemaFieldName \in FieldMapNames(fields)
             fieldInterface == IF exists
                               THEN StructFieldInterface(FieldMapGet(fields, schemaFieldName))
                               ELSE Nil
             called == Called(errors, s.shape[schemaFieldName], fieldPath, fieldInterface)
         IN  UNION { StructFields(s, fields, p, order, i + 1, Absorb(called, fieldErrors)) :
                       fieldErrors \in Validate(s.shape[schemaFieldName], fieldInterface, fieldPath) }

\* for i := 0; i < typ.NumField(); i++ { ... }: the strict scan, in field order.
RECURSIVE StructUnknownFields(_, _, _, _, _)
StructUnknownFields(s, fields, p, i, errors) ==
    IF i > Len(fields) THEN errors
    ELSE LET fieldName == getStructFieldName(fields[i])
             keyPath == PathAppend(p, Name(fieldName))
         IN  StructUnknownFields(s, fields, p, i + 1,
                 IF IsExported(fields[i]) /\ fieldName \notin DOMAIN s.shape
                 THEN Add(errors, keyPath, ErrCodeUnrecognizedKeys,
                          getErrorMessage(s, keyPath, ErrCodeUnrecognizedKeys,
                                          "Unrecognized field '" \o fieldName \o "'"))
                 ELSE errors)

StructStrict(s, fields, p, errors) ==
    IF s.strict /\ ~errors.panicked THEN StructUnknownFields(s, fields, p, 1, errors)
    ELSE errors

StructSchema_Validate(s, val, p) ==
    LET errors == NewErrors
        isNilPtr == val.t = "ptr" /\ val.v.elem = <<>>
        elem == IF val.t = "ptr" /\ ~isNilPtr THEN val.v.elem[1] ELSE val
    IN
    IF val.t = "nil" THEN {RequiredOrNil(s, p, errors)}
    ELSE IF isNilPtr THEN {RequiredOrNil(s, p, errors)}
    ELSE IF elem.t # "struct"
    THEN {Return(Add(errors, p, ErrCodeInvalidType,
                     getErrorMessage(s, p, ErrCodeInvalidType,
                                     "Expected struct, got " \o TypeName(val))))}
    ELSE
    LET fields == elem.v.fields
        e0 == Log(errors, Event("typed", "struct", p, val))
        done == UNION { StructFields(s, fields, p, order, 1, e0) :
                          order \in Orders(DOMAIN s.shape) }
    IN  { Complete(s, val, p, StructStrict(s, fields, p, e)) : e \in done }

Validate(s, val, p) ==
    CASE s.kind = "string" -> {StringSchema_Validate(s, val, p)}
      [] s.kind = "int" -> {IntSchema_Validate(s, val, p)}
      [] s.kind = "float" -> {FloatSchema_Validate(s, val, p)}
      [] s.kind = "bool" -> {BoolSchema_Validate(s, val, p)}
      [] s.kind = "array" -> ArraySchema_Validate(s, val, p)
      [] s.kind = "object" -> MapSchema_Validate(s, val, p)
      [] s.kind = "struct" -> StructSchema_Validate(s, val, p)

(***************************************************************************)
(* The builder methods. Each sets fields of its receiver and returns the   *)
(* receiver. Nilable, Refine, SuperRefine, CustomError and                 *)
(* SetErrorFormatter are written once per schema kind in the source, with  *)
(* the same body: each is one operator here.                               *)
(***************************************************************************)
Nilable(s) == [s EXCEPT !.nilable = TRUE]
Refine(s, validator) == addRefinement(s, validator)
SuperRefine(s, validator) == addSuperRefinement(s, validator)
CustomError(s, code, message) ==
    [s EXCEPT !.customErrors =
        {c \in @ : c.code # code} \cup {[code |-> code, message |-> message]}]
SetErrorFormatter(s, formatter) == [s EXCEPT !.errorFormatter = <<formatter>>]

StringSchema_Min(s, length) == [s EXCEPT !.minLength = <<length>>]
StringSchema_Max(s, length) == [s EXCEPT !.maxLength = <<length>>]
StringSchema_Email(s) == [s EXCEPT !.email = TRUE]
StringSchema_URL(s) == [s EXCEPT !.url = TRUE]
\* message is the variadic argument: <<>> or <<m>>. The caller panics when the
\* pattern does not compile (see Regex below).
StringSchema_Regex(s, pattern, message) ==
    [s EXCEPT !.regex = <<pattern>>,
              !.regexMessage = IF Len(message) > 0 THEN message[1] ELSE @]
StringSchema_OneOf(s, options) == [s EXCEPT !.oneOf = options]
StringSchema_NotOneOf(s, options) == [s EXCEPT !.notOneOf = options]
StringSchema_StartsWith(s, prefix) == [s EXCEPT !.startsWith = <<prefix>>]
StringSchema_EndsWith(s, suffix) == [s EXCEPT !.endsWith = <<suffix>>]
StringSchema_Includes(s, substring) == [s EXCEPT !.includes = <<substring>>]

IntSchema_Min(s, n) == [s EXCEPT !.min = <<n>>]
IntSchema_Max(s, n) == [s EXCEPT !.max = <<n>>]
IntSchema_Positive(s) == [s EXCEPT !.positive = TRUE]
IntSchema_Negative(s) == [s EXCEPT !.negative = TRUE]
IntSchema_NonNegative(s) == [s EXCEPT !.nonNegative = TRUE]
IntSchema_NonPositive(s) == [s EXCEPT !.nonPositive = TRUE]
IntSchema_MultipleOf(s, n) == [s EXCEPT !.multipleOf = <<n>>]

FloatSchema_Min(s, n) == [s EXCEPT !.min = <<n>>]
FloatSchema_Max(s, n) == [s EXCEPT !.max = <<n>>]
FloatSchema_Positive(s) == [s EXCEPT !.positive = TRUE]
FloatSchema_Negative(s) == [s EXCEPT !.negative = TRUE]
FloatSchema_NonNegative(s) == [s EXCEPT !.nonNegative = TRUE]
FloatSchema_NonPositive(s) == [s EXCEPT !.nonPositive = TRUE]
FloatSchema_MultipleOf(s, n) == [s EXCEPT !.multipleOf = <<n>>]

ArraySchema_Min(s, length) == [s EXCEPT !.minLength = <<length>>]
ArraySchema_Max(s, length) == [s EXCEPT !.maxLength = <<length>>]
ArraySchema_NonEmpty(s) == [s EXCEPT !.nonEmpty = TRUE]

\* MapSchema.Strict and StructSchema.Strict.
Strict(s) == [s EXCEPT !.strict = TRUE]

(***************************************************************************)
(* The inputs of the model: the values handed to Validate, the child       *)
(* schemas of the composites, and the arguments of the builder calls.      *)
(***************************************************************************)
sAb == <<"a", "b">>
sX1 == <<"x", "1">>
sEmail == <<"a", "@", "b", ".", "c", "o">>
sUrl == <<"h", "t", "t", "p", ":", "/", "/", "a", "b">>

StringValues == {Str(<<>>), Str(sAb), Str(sX1), Str(sEmail), Str(sUrl)}

IntValues ==
    { IntV("int", -5), IntV("int", 0), IntV("int", 12), IntV("int64", 15),
      IntV("uint8", 7), IntV("uint", 200), IntV("uint64", 200) }

FloatValues ==
    { FloatV("float64", -30), FloatV("float64", 0), FloatV("float64", 25),
      FloatV("float64", 30), FloatV("float32", 75) }

BoolValues == {BoolV(TRUE), BoolV(FALSE)}

SliceValues ==
    { Slice(<<>>), Slice(<<Str(sEmail), Str(sUrl)>>),
      Slice(<<IntV("int", 12), Str(sAb), IntV("int", -5), Str(sEmail)>>) }

MapValues ==
    { MapV(<<>>),
      MapV([name |-> Str(sAb)]),
      MapV([name |-> Str(sAb), age |-> Nil]),
      MapV([name |-> IntV("int", 12), age |-> IntV("int", -5)]),
      MapV([name |-> Str(sEmail), age |-> IntV("int", 12), extra |-> Str(sAb),
            more |-> BoolV(TRUE)]),
      MapV([name |-> MapV([name |-> Str(sAb), extra |-> Nil]),
            age |-> Slice(<<IntV("int", 12), IntV("int", 5)>>)]) }

\* type User struct {
\*     Name   string  `json:"name"`
\*     Age    int     `json:"age,omitempty"`
\*     Nick   *string
\*     secret string
\* }
fName == <<"N", "a", "m", "e">>
fAge == <<"A", "g", "e">>
fNick == <<"N", "i", "c", "k">>
fSecret == <<"s", "e", "c", "r", "e", "t">>
tName == <<"n", "a", "m", "e">>
tAge == <<"a", "g", "e", ",">> \o omitemptyWord

User(name, age, nick) ==
    StructV("User", << Field(fName, tName, FALSE, name), Field(fAge, tAge, FALSE, age),
                       Field(fNick, <<>>, TRUE, nick), Field(fSecret, <<>>, FALSE, Str(sX1)) >>)

\* type Prefs struct {
\*     Note string `json:"omitempty_note"`
\* }
fNote == <<"N", "o", "t", "e">>
tNote == omitemptyWord \o <<"_", "n", "o", "t", "e">>

Prefs(note) == StructV("Prefs", << Field(fNote, tNote, FALSE, note) >>)

StructValues ==
    { User(Str(sAb), IntV("int", 0), Nil),
      Prefs(Str(<<>>)),
      User(Str(sEmail), IntV("int", 12), Str(sAb)),
      Ptr("User", <<User(Str(<<>>), IntV("int", -5), Nil)>>),
      Ptr("User", <<>>) }

\* One value of every kind: the values of another kind a schema is handed.
Samples ==
    { Str(sAb), IntV("int", 12), FloatV("float64", 25), BoolV(TRUE), Slice(<<>>),
      MapV([name |-> Str(sAb)]), User(Str(sAb), IntV("int", 0), Nil), Ptr("User", <<>>),
      Ptr("int", <<IntV("int", 12)>>) }

\* The values a schema of a kind is validated against.
ValuesFor(kind) ==
    {Nil} \cup Samples \cup
    CASE kind = "string" -> StringValues
      [] kind = "int" -> IntValues
      [] kind = "float" -> FloatValues
      [] kind = "bool" -> BoolValues
      [] kind = "array" -> SliceValues
      [] kind = "object" -> MapValues
      [] kind = "struct" -> StructValues

Paths == { <<>>, <<Name("users"), Index(0)>> }

\* The shapes of the Map and Struct schemas.
Shapes ==
    { <<>>,
      [name |-> StringSchema_Min(String, 3)],
      [name |-> SuperRefine(Refine(StringSchema_Min(String, 3), "failMsg"), "many"),
       age |-> Nilable(IntSchema_Positive(IntSchema))],
      [name |-> Strict(Map([name |-> String])),
       age |-> Array(IntSchema_Min(IntSchema, 10))],
      [name |-> String, age |-> IntSchema_MultipleOf(IntSchema, 0)],
      [omitempty_note |-> String] }

\* The element schemas of the Array schemas.
ElementSchemas ==
    { StringSchema_Min(String, 3),
      IntSchema_Positive(IntSchema_Min(IntSchema, 10)),
      Nilable(Refine(IntSchema_MultipleOf(IntSchema, 0), "fail")) }

StringLengths == {1, 3}
StringOptions == { <<sAb, sX1>> }
StringAffixes == { sAb }
RegexMessages == { <<>>, <<"Must match">> }
IntBounds == {3, 10}
IntDivisors == {0, 5}
FloatBounds == {10, 28}
FloatDivisors == {0, 25}
ArraySizes == {1, 2}
OverrideCodes == {ErrCodeRequired, ErrCodeCustomValidation}
OverrideMessages(c) == {"custom " \o c, ""}

(***************************************************************************)
(* The state machine: a schema is constructed, builder methods are called  *)
(* on it, and it validates one value.                                      *)
(***************************************************************************)
NoResult == [panicked |-> FALSE, isNil |-> TRUE, Errors |-> <<>>, log |-> <<>>]

\* The goroutines, and a goroutine that has not called Validate.
Threads == {1, 2}
Idle ==
    [ pc |-> "idle", value |-> Nil, path |-> <<>>, errors |-> 0, i |-> 0,
      overlapped |-> FALSE, result |-> NoResult ]

(***************************************************************************)
(* The path helpers called on their own (errors.go).  A path argument is   *)
(* a []any: nil, or a slice of segments.  A segment carries its dynamic    *)
(* type: string, int or int64 (PathToString renders the last two alike).   *)
(***************************************************************************)
Index64(i) == [kind |-> "int64", name |-> "", idx |-> i]

NilPath == [isNil |-> TRUE, elems |-> <<>>]
SliceOf(elems) == [isNil |-> FALSE, elems |-> elems]

MaxSegments == 2

Segments ==
    {Name("a"), Name("0"), Name("[k]"), Index(0), Index(1), Index64(0)}

RECURSIVE SeqsUpTo(_, _)
SeqsUpTo(S, n) ==
    IF n = 0 THEN {<<>>}
    ELSE LET shorter == SeqsUpTo(S, n - 1)
         IN  shorter \cup {Append(q, x) : q \in shorter, x \in S}

PathArguments == {NilPath} \cup {SliceOf(e) : e \in SeqsUpTo(Segments, MaxSegments)}

\* path1[i] != path2[i] compares two interface values: they are equal when
\* their dynamic types and their values are equal.
PathEqual(path1, path2) ==
    IF Len(path1.elems) # Len(path2.elems) THEN FALSE
    ELSE \A i \in 1..Len(path1.elems) : path1.elems[i] = path2.elems[i]

NoOutput == [equal |-> FALSE, text |-> ""]

NoPathCall ==
    /\ fn = ""
    /\ args = [path1 |-> NilPath, path2 |-> NilPath]
    /\ out = NoOutput

Call_PathEqual ==
    /\ pc = "paths"
    /\ fn' = "PathEqual"
    /\ out' = [equal |-> PathEqual(args.path1, args.path2), text |-> ""]
    /\ UNCHANGED <<schema, receiver, calls, pc, value, path, result, flat,
                   threads, collections, args, storageVars>>

Call_PathToString ==
    /\ pc = "paths"
    /\ fn' = "PathToString"
    /\ out' = [equal |-> FALSE, text |-> PathToString(args.path1.elems)]
    /\ UNCHANGED <<schema, receiver, calls, pc, value, path, result, flat,
                   threads, collections, args, storageVars>>

(***************************************************************************)
(* The storage behind paths and meta maps.  A slice is a header (arr, len, *)
(* cap) onto a backing array of the heap; arr = 0 is the nil slice.  A     *)
(* map is a reference into the heap of maps; 0 is the nil map.             *)
(***************************************************************************)
ZeroValue == [kind |-> "nil", name |-> "", idx |-> 0]
NilSlice == [arr |-> 0, len |-> 0, cap |-> 0]

\* The elements a slice shows.
Elems(arrs, s) == [i \in 1..s.len |-> arrs[s.arr][i]]

\* make([]any, len, cap)
MakeSlice(arrs, len, cap) ==
    [ arrays |-> Append(arrs, [i \in 1..cap |-> ZeroValue]),
      slice  |-> [arr |-> Len(arrs) + 1, len |-> len, cap |-> cap] ]

\* copy(dst, src)
CopySlice(arrs, dst, src) ==
    IF dst.len = 0 \/ src.len = 0 THEN arrs
    ELSE [arrs EXCEPT ![dst.arr] =
              [i \in 1..Len(@) |->
                  IF i <= dst.len /\ i <= src.len THEN arrs[src.arr][i]
                  ELSE @[i]]]

\* append(s, x): in place when the backing array has room, otherwise into a
\* larger array that receives the elements.
AppendSlice(arrs, s, x) ==
    IF s.len < s.cap
    THEN [ arrays |-> [arrs EXCEPT ![s.arr][s.len + 1] = x],
           slice  |-> [s EXCEPT !.len = @ + 1] ]
    ELSE LET made == MakeSlice(arrs, s.len, 2 * s.cap + 1)
             copied == CopySlice(made.arrays, made.slice, s)
         IN  [ arrays |-> [copied EXCEPT ![made.slice.arr][s.len + 1] = x],
               slice  |-> [made.slice EXCEPT !.len = @ + 1] ]

\* A variant of PathAppend that appends to the path it was given.
PathAppendAt_InPlace(arrs, p, part) == AppendSlice(arrs, p, part)

\* PathAppend on the heap: newPath := make([]any, len(path), len(path)+1);
\* copy(newPath, path); return append(newPath, part).
PathAppendAt(arrs, p, part) ==
    LET made == MakeSlice(arrs, p.len, p.len + 1)
        copied == CopySlice(made.arrays, made.slice, p)
    IN  AppendSlice(copied, made.slice, part)

\* AddWithMeta on the heap: the path is copied, the meta map is stored as
\* the reference it was given.
AddWithMetaAt(arrs, errors, p, code, message, meta) ==
    LET made == MakeSlice(arrs, p.len, p.len)
        copied == CopySlice(made.arrays, made.slice, p)
    IN  [ arrays |-> copied,
          Errors |-> Append(errors, [ Path |-> made.slice, Code |-> code,
                                      Message |-> message, Meta |-> meta ]) ]

\* Add(path, code, message) is AddWithMeta(path, code, message, nil).
AddAt(arrs, errors, p, code, message) ==
    AddWithMetaAt(arrs, errors, p, code, message, 0)

MaxResults == 2
MaxErrors == 2

\* What callers append, and what they write into slices and maps they hold.
AppendedParts == {Name("a"), Index(0)}
WrittenSegments == {Name("modified")}
MetaKeys == {"key"}
MetaValues == {"2"}

\* The paths a caller holds: nil, a literal (cap = len), and slices with
\* room left in their backing array (as append leaves them).
CallerHeaps ==
    { [arrays |-> <<>>, slice |-> NilSlice],
      [arrays |-> << <<Name("user")>> >>,
       slice |-> [arr |-> 1, len |-> 1, cap |-> 1]],
      [arrays |-> << <<Name("user"), ZeroValue, ZeroValue>> >>,
       slice |-> [arr |-> 1, len |-> 1, cap |-> 3]],
      [arrays |-> << <<ZeroValue, ZeroValue>> >>,
       slice |-> [arr |-> 1, len |-> 0, cap |-> 2]] }

NoStorage ==
    /\ arrays = <<>>
    /\ maps = <<>>
    /\ caller = [path |-> NilSlice, meta |-> 0]
    /\ results = <<>>
    /\ stored = <<>>

UnchangedByStorage ==
    UNCHANGED <<schema, receiver, calls, pc, value, path, result, flat,
                threads, collections, pathVars>>

\* r := PathAppend(path, part), the result kept by the caller.
S_PathAppend ==
    /\ pc = "storage"
    /\ Len(results) < MaxResults
    /\ \E part \in AppendedParts :
           LET r == PathAppendAt(arrays, caller.path, part)
           IN  /\ arrays' = r.arrays
               /\ results' = Append(results, [slice |-> r.slice, part |-> part])
    /\ UNCHANGED <<maps, caller, stored>>
    /\ UnchangedByStorage

\* errs.Add(path, code, message)
S_Add ==
    /\ pc = "storage"
    /\ Len(stored) < MaxErrors
    /\ \E code \in {ErrCodeRequired} :
           LET r == AddAt(arrays, stored, caller.path, code, "message")
           IN  /\ arrays' = r.arrays
               /\ stored' = r.Errors
    /\ UNCHANGED <<maps, caller, results>>
    /\ UnchangedByStorage

\* errs.AddWithMeta(path, code, message, meta) with the caller's map.
S_AddWithMeta ==
    /\ pc = "storage"
    /\ Len(stored) < MaxErrors
    /\ \E code \in {ErrCodeTooSmall} :
           LET r == AddWithMetaAt(arrays, stored, caller.path, code, "message",
                                  caller.meta)
           IN  /\ arrays' = r.arrays
               /\ stored' = r.Errors
    /\ UNCHANGED <<maps, caller, results>>
    /\ UnchangedByStorage

\* path[i] = x by the caller, as in originalPath[0] = "modified".
S_SetPath ==
    /\ pc = "storage"
    /\ \E i \in 1..caller.path.len : \E x \in WrittenSegments :
           arrays' = [arrays EXCEPT ![caller.path.arr][i] = x]
    /\ UNCHANGED <<maps, caller, results, stored>>
    /\ UnchangedByStorage

\* r[len(r)-1] = x by the caller, on a slice PathAppend returned: a write to
\* the segment that PathAppend added.
S_SetResult ==
    /\ pc = "storage"
    /\ \E k \in 1..Len(results) : \E x \in WrittenSegments :
           arrays' = [arrays EXCEPT
                         ![results[k].slice.arr][results[k].slice.len] = x]
    /\ UNCHANGED <<maps, caller, results, stored>>
    /\ UnchangedByStorage

\* meta[key] = v by the caller.
S_SetMeta ==
    /\ pc = "storage"
    /\ \E key \in MetaKeys : \E v \in MetaValues :
           maps' = [maps EXCEPT ![caller.meta] =
                        [k \in (DOMAIN @) \cup {key} |->
                            IF k = key THEN v ELSE @[k]]]
    /\ UNCHANGED <<arrays, caller, results, stored>>
    /\ UnchangedByStorage

Init ==
    /\ schema \in {String, IntSchema, Float, Bool}
                  \cup {Array(e) : e \in ElementSchemas}
                  \cup {Map(sh) : sh \in Shapes}
                  \cup {Struct(sh) : sh \in Shapes}
    /\ receiver = schema
    /\ calls = 0
    /\ pc = "build"
    /\ value = Nil
    /\ path = <<>>
    /\ result = NoResult
    /\ flat = FlattenErrorResult(<<>>, <<>>)
    /\ threads = [t \in Threads |-> Idle]
    /\ collections = <<>>
    /\ NoPathCall
    /\ NoStorage

\* A variant of a builder call that leaves the receiver as it was and returns
\* an updated copy.
Build_ReturnsCopy(kinds, s) ==
    /\ pc = "build"
    /\ schema.kind \in kinds
    /\ calls < MaxBuild
    /\ schema' = s
    /\ receiver' = schema
    /\ calls' = calls + 1
    /\ UNCHANGED <<pc, value, path, result, flat, threads, collections, pathVars, storageVars>>

\* A builder method of a schema of the given kinds is called and returns:
\* s.field = ...; return s.  The method has a pointer receiver, assigns to
\* the receiver's fields and returns the receiver, so the schema behind the
\* receiver and the schema behind the returned reference are the one s.
Build(kinds, s) ==
    /\ pc = "build"
    /\ schema.kind \in kinds
    /\ calls < MaxBuild
    /\ schema' = s
    /\ receiver' = s
    /\ calls' = calls + 1
    /\ UNCHANGED <<pc, value, path, result, flat, threads, collections, pathVars, storageVars>>

Call_Nilable == Build(ScalarKinds \cup CompositeKinds, Nilable(schema))
Call_Refine ==
    \E f \in RefineNames : Build(ScalarKinds \cup CompositeKinds, Refine(schema, f))
Call_SuperRefine ==
    \E f \in SuperRefineNames : Build(ScalarKinds \cup CompositeKinds, SuperRefine(schema, f))
Call_CustomError ==
    \E c \in OverrideCodes : \E m \in OverrideMessages(c) :
        Build(ScalarKinds \cup CompositeKinds, CustomError(schema, c, m))
Call_SetErrorFormatter ==
    \E f \in FormatterNames :
        Build(ScalarKinds \cup CompositeKinds, SetErrorFormatter(schema, f))

Call_StringSchema_Min == \E n \in StringLengths : Build({"string"}, StringSchema_Min(schema, n))
Call_StringSchema_Max == \E n \in StringLengths : Build({"string"}, StringSchema_Max(schema, n))
Call_StringSchema_Email == Build({"string"}, StringSchema_Email(schema))
Call_StringSchema_URL == Build({"string"}, StringSchema_URL(schema))
\* regexp.Compile fails on an invalid pattern and Regex panics: no schema is built.
Call_StringSchema_Regex ==
    \E pattern \in Patterns, message \in RegexMessages :
        IF Compiles(pattern)
        THEN Build({"string"}, StringSchema_Regex(schema, pattern, message))
        ELSE /\ pc = "build" /\ schema.kind = "string" /\ calls < MaxBuild
             /\ pc' = "panic"
             /\ UNCHANGED <<schema, receiver, calls, value, path, result, flat, threads, collections, pathVars, storageVars>>
Call_StringSchema_OneOf ==
    \E o \in StringOptions : Build({"string"}, StringSchema_OneOf(schema, o))
Call_StringSchema_NotOneOf ==
    \E o \in StringOptions : Build({"string"}, StringSchema_NotOneOf(schema, o))
Call_StringSchema_StartsWith ==
    \E a \in StringAffixes : Build({"string"}, StringSchema_StartsWith(schema, a))
Call_StringSchema_EndsWith ==
    \E a \in StringAffixes : Build({"string"}, StringSchema_EndsWith(schema, a))
Call_StringSchema_Includes ==
    \E a \in StringAffixes : Build({"string"}, StringSchema_Includes(schema, a))

Call_IntSchema_Min == \E n \in IntBounds : Build({"int"}, IntSchema_Min(schema, n))
Call_IntSchema_Max == \E n \in IntBounds : Build({"int"}, IntSchema_Max(schema, n))
Call_IntSchema_Positive == Build({"int"}, IntSchema_Positive(schema))
Call_IntSchema_Negative == Build({"int"}, IntSchema_Negative(schema))
Call_IntSchema_NonNegative == Build({"int"}, IntSchema_NonNegative(schema))
Call_IntSchema_NonPositive == Build({"int"}, IntSchema_NonPositive(schema))
Call_IntSchema_MultipleOf ==
    \E n \in IntDivisors : Build({"int"}, IntSchema_MultipleOf(schema, n))

Call_FloatSchema_Min == \E n \in FloatBounds : Build({"float"}, FloatSchema_Min(schema, n))
Call_FloatSchema_Max == \E n \in FloatBounds : Build({"float"}, FloatSchema_Max(schema, n))
Call_FloatSchema_Positive == Build({"float"}, FloatSchema_Positive(schema))
Call_FloatSchema_Negative == Build({"float"}, FloatSchema_Negative(schema))
Call_FloatSchema_NonNegative == Build({"float"}, FloatSchema_NonNegative(schema))
Call_FloatSchema_NonPositive == Build({"float"}, FloatSchema_NonPositive(schema))
Call_FloatSchema_MultipleOf ==
    \E n \in FloatDivisors : Build({"float"}, FloatSchema_MultipleOf(schema, n))

Call_ArraySchema_Min == \E n \in ArraySizes : Build({"array"}, ArraySchema_Min(schema, n))
Call_ArraySchema_Max == \E n \in ArraySizes : Build({"array"}, ArraySchema_Max(schema, n))
Call_ArraySchema_NonEmpty == Build({"array"}, ArraySchema_NonEmpty(schema))

Call_Strict == Build({"object", "struct"}, Strict(schema))

\* schema.Validate(v, p) is called and ends in one of its outcomes.
Call_Validate ==
    /\ pc = "build"
    /\ \E v \in ValuesFor(schema.kind), p \in Paths :
          /\ value' = v
          /\ path' = p
          /\ result' \in Validate(schema, v, p)
    /\ pc' = "done"
    /\ UNCHANGED <<schema, receiver, calls, flat, threads, collections, pathVars, storageVars>>

\* errs.Flatten() is called on the collection Validate returned.
Call_Flatten ==
    /\ pc = "done"
    /\ ~result.panicked /\ ~result.isNil
    /\ flat' = Flatten(result)
    /\ pc' = "flattened"
    /\ UNCHANGED <<schema, receiver, calls, value, path, result, threads, collections, pathVars, storageVars>>

Next ==
    \/ Call_Nilable \/ Call_Refine \/ Call_SuperRefine \/ Call_CustomError
    \/ Call_SetErrorFormatter
    \/ Call_StringSchema_Min \/ Call_StringSchema_Max \/ Call_StringSchema_Email
    \/ Call_StringSchema_URL \/ Call_StringSchema_Regex \/ Call_StringSchema_OneOf
    \/ Call_StringSchema_NotOneOf \/ Call_StringSchema_StartsWith
    \/ Call_StringSchema_EndsWith \/ Call_StringSchema_Includes
    \/ Call_IntSchema_Min \/ Call_IntSchema_Max \/ Call_IntSchema_Positive
    \/ Call_IntSchema_Negative \/ Call_IntSchema_NonNegative
    \/ Call_IntSchema_NonPositive \/ Call_IntSchema_MultipleOf
    \/ Call_FloatSchema_Min \/ Call_FloatSchema_Max \/ Call_FloatSchema_Positive
    \/ Call_FloatSchema_Negative \/ Call_FloatSchema_NonNegative
    \/ Call_FloatSchema_NonPositive \/ Call_FloatSchema_MultipleOf
    \/ Call_ArraySchema_Min \/ Call_ArraySchema_Max \/ Call_ArraySchema_NonEmpty
    \/ Call_Strict
    \/ Call_Validate \/ Call_Flatten

Spec == Init /\ [][Next]_vars

(***************************************************************************)
(* Validate called from several goroutines on one schema whose             *)
(* construction has completed.  A call runs in steps: its checks and        *)
(* children, each refinement, each super-refinement, its return.  Every    *)
(* step reads the schema and writes only the collection the call holds.    *)
(***************************************************************************)
\* The schemas the goroutines share.
SharedSchemas ==
    { Refine(SuperRefine(StringSchema_Min(String, 3), "many"), "failMsg"),
      SuperRefine(Refine(IntSchema_Positive(IntSchema), "nonZero"), "one"),
      Refine(SuperRefine(ArraySchema_Min(Array(StringSchema_Min(String, 3)), 1), "one"), "fail"),
      SuperRefine(Strict(Map([name |-> StringSchema_Min(String, 3),
                              age |-> Nilable(IntSchema_Positive(IntSchema))])), "many") }

\* The values the goroutines validate.
SharedValues(kind) ==
    {Nil, BoolV(TRUE)} \cup
    CASE kind = "string" -> {Str(sAb), Str(sEmail)}
      [] kind = "int" -> {IntV("int", 0), IntV("int", -5), IntV("int", 12)}
      [] kind = "array" -> SliceValues
      [] kind = "object" -> { MapV([name |-> Str(sAb)]),
                              MapV([name |-> IntV("int", 12), age |-> IntV("int", -5)]) }

\* The schema without its hooks: the checks and children of Validate.
Hookless(s) == [s EXCEPT !.refinements = <<>>, !.superRefinements = <<>>]

\* A variant of the allocation that hands every call the first collection
\* ever allocated.
Allocate_Reuses(heap) ==
    IF heap = <<>> THEN [ref |-> 1, heap |-> <<NewErrors>>] ELSE [ref |-> 1, heap |-> heap]

\* errors := &ValidationErrors{}: a fresh collection for the call.
Allocate(heap) == [ref |-> Len(heap) + 1, heap |-> Append(heap, NewErrors)]

\* The shared and the sequential state a step of a goroutine leaves alone.
Untouched == UNCHANGED <<schema, receiver, calls, pc, value, path, result, flat,
                         pathVars, storageVars>>

\* Goroutine t calls schema.Validate(v, p).
T_Call(t) ==
    /\ pc = "shared"
    /\ threads[t].pc = "idle"
    /\ \E v \in SharedValues(schema.kind), p \in Paths :
          LET a == Allocate(collections)
          IN  /\ threads' = [threads EXCEPT ![t] =
                     [ pc |-> "checks", value |-> v, path |-> p, errors |-> a.ref, i |-> 1,
                       overlapped |-> \E u \in Threads \ {t} :
                                         threads[u].pc \notin {"idle", "done"},
                       result |-> NoResult ]]
              /\ collections' = a.heap
    /\ Untouched

\* The nil check, the type check, the built-in checks and the children of
\* the call of goroutine t; the call returns here on nil and on another kind.
T_Checks(t) ==
    /\ pc = "shared"
    /\ threads[t].pc = "checks"
    /\ \E r \in Validate(Hookless(schema), threads[t].value, threads[t].path) :
          LET ref == threads[t].errors
              errors == [collections[ref] EXCEPT !.Errors = @ \o r.Errors,
                                                 !.log = @ \o r.log,
                                                 !.panicked = r.panicked]
              typed == \E k \in 1..Len(r.log) :
                           r.log[k].op = "typed" /\ r.log[k].path = threads[t].path
          IN  /\ collections' = [collections EXCEPT ![ref] = errors]
              /\ threads' = [threads EXCEPT ![t] =
                     IF r.panicked THEN [@ EXCEPT !.pc = "done", !.result = Panic(errors)]
                     ELSE IF typed THEN [@ EXCEPT !.pc = "refine", !.i = 1]
                     ELSE [@ EXCEPT !.pc = "done",
                                    !.result = IF r.isNil THEN ReturnNil(errors)
                                               ELSE Return(errors)]]
    /\ Untouched

\* One iteration of the loop of applyRefinements in the call of goroutine t,
\* or its end.
T_Refine(t) ==
    /\ pc = "shared"
    /\ threads[t].pc = "refine"
    /\ LET ref == threads[t].errors
           i == threads[t].i
       IN  IF i <= Len(schema.refinements)
           THEN /\ collections' = [collections EXCEPT ![ref] =
                       applyRefinement(schema, schema.refinements[i], threads[t].value,
                                       threads[t].path, @)]
                /\ threads' = [threads EXCEPT ![t].i = i + 1]
           ELSE /\ threads' = [threads EXCEPT ![t].pc = "superRefine", ![t].i = 1]
                /\ UNCHANGED collections
    /\ Untouched

\* One iteration of the loop of applySuperRefinements in the call of
\* goroutine t, or its end.
T_SuperRefine(t) ==
    /\ pc = "shared"
    /\ threads[t].pc = "superRefine"
    /\ LET ref == threads[t].errors
           i == threads[t].i
       IN  IF i <= Len(schema.superRefinements)
           THEN /\ collections' = [collections EXCEPT ![ref] =
                       applySuperRefinement(schema, schema.superRefinements[i],
                                            threads[t].value, threads[t].path, @)]
                /\ threads' = [threads EXCEPT ![t].i = i + 1]
           ELSE /\ threads' = [threads EXCEPT ![t].pc = "return"]
                /\ UNCHANGED collections
    /\ Untouched

\* if len(errors.Errors) == 0 { return nil }; return errors, in the call of
\* goroutine t.
T_Return(t) ==
    /\ pc = "shared"
    /\ threads[t].pc = "return"
    /\ threads' = [threads EXCEPT ![t].pc = "done",
                                  ![t].result = Finish(collections[threads[t].errors])]
    /\ UNCHANGED collections
    /\ Untouched

ConcurrentInit ==
    /\ schema \in SharedSchemas
    /\ receiver = schema
    /\ calls = 0
    /\ pc = "shared"
    /\ value = Nil
    /\ path = <<>>
    /\ result = NoResult
    /\ flat = FlattenErrorResult(<<>>, <<>>)
    /\ threads = [t \in Threads |-> Idle]
    /\ collections = <<>>
    /\ NoPathCall
    /\ NoStorage

ConcurrentNext ==
    \E t \in Threads :
        \/ T_Call(t) \/ T_Checks(t) \/ T_Refine(t) \/ T_SuperRefine(t) \/ T_Return(t)

ConcurrentSpec == ConcurrentInit /\ [][ConcurrentNext]_vars

(***************************************************************************)
(* The path helpers applied to a pair of paths.                            *)
(***************************************************************************)
NoValidation ==
    /\ schema = String
    /\ receiver = schema
    /\ calls = 0
    /\ value = Nil
    /\ path = <<>>
    /\ result = NoResult
    /\ flat = FlattenErrorResult(<<>>, <<>>)
    /\ threads = [t \in Threads |-> Idle]
    /\ collections = <<>>

PathInit ==
    /\ NoValidation
    /\ pc = "paths"
    /\ fn = ""
    /\ args \in [path1 : PathArguments, path2 : PathArguments]
    /\ out = NoOutput
    /\ NoStorage

PathNext == Call_PathEqual \/ Call_PathToString

PathSpec == PathInit /\ [][PathNext]_vars

(***************************************************************************)
(* A caller that holds a path and a meta map, extends the path, records    *)
(* failures and goes on writing into what it holds.                        *)
(***************************************************************************)
StorageInit ==
    /\ NoValidation
    /\ pc = "storage"
    /\ NoPathCall
    /\ \E h \in CallerHeaps :
           /\ arrays = h.arrays
           /\ caller = [path |-> h.slice, meta |-> 1]
    /\ maps = << [k \in {"key"} |-> "1"] >>
    /\ results = <<>>
    /\ stored = <<>>

StorageNext ==
    \/ S_PathAppend \/ S_Add \/ S_AddWithMeta
    \/ S_SetPath \/ S_SetResult \/ S_SetMeta

StorageSpec == StorageInit /\ [][StorageNext]_vars

(***************************************************************************)
(* Properties of a finished Validate call: schema is the schema as built,  *)
(* value and path are the arguments, result is what the call produced.     *)
(***************************************************************************)
Done == pc = "done"

\* The call returned to its caller.
Returned == Done /\ ~result.panicked

\* The schema kind whose values a Go value belongs to.
KindOf(val) ==
    CASE val.t = "string" -> "string"
      [] val.t \in SignedKinds \cup UnsignedKinds -> "int"
      [] val.t \in FloatKinds -> "float"
      [] val.t = "bool" -> "bool"
      [] val.t = "slice" -> "array"
      [] val.t = "map" -> "object"
      [] val.t = "struct" -> "struct"
      [] OTHER -> val.t

IsNilPointer(val) == val.t = "ptr" /\ val.v.elem = <<>>

\* The struct a Struct schema reads: the value, or what a pointer points at.
StructOf(val) == IF val.t = "ptr" THEN val.v.elem[1] ELSE val

\* The input is nil for the schema.
NilInput == value = Nil \/ (schema.kind = "struct" /\ IsNilPointer(value))

\* The input is a value of the schema's own kind, one that its nil and type
\* checks let through.
OwnKind ==
    CASE schema.kind = "struct" ->
           value.t = "struct" \/
           (value.t = "ptr" /\ ~IsNilPointer(value) /\ value.v.elem[1].t = "struct")
      [] schema.kind = "int" ->
           KindOf(value) = "int" /\ ~(value.t = "uint64" /\ value.v > MaxInt64)
      [] OTHER -> KindOf(value) = schema.kind

IsPrefix(p, q) == Len(p) <= Len(q) /\ SubSeq(q, 1, Len(p)) = p

\* The failures of a sequence that lie at or below path q.
Under(errs, q) == SelectSeq(errs, LAMBDA e : IsPrefix(q, e.Path))

\* The concatenation of a sequence of sequences.
RECURSIVE Flat(_)
Flat(seqs) == IF seqs = <<>> THEN <<>> ELSE seqs[1] \o Flat(Tail(seqs))

\* What the caller can see of an outcome.
Visible(r) == [panicked |-> r.panicked, isNil |-> r.isNil, Errors |-> r.Errors]

\* The calls of Validate the run made on the direct children of the root.
ChildCalls ==
    SelectSeq(result.log, LAMBDA ev : ev.op = "validate" /\ Len(ev.path) = Len(path) + 1)

\* The calls the run made of the root's own hooks of one sort.
HookCalls(op) == SelectSeq(result.log, LAMBDA ev : ev.op = op /\ ev.path = path)

(***************************************************************************)
(* C1 .. C4: nil, wrong kind, the shape of the result, panics.             *)
(***************************************************************************)
\* C1: for every schema kind and every path p, Validate(nil, p) returns
\* exactly one failure, with code required and path p, when the schema is not
\* nilable, and returns nil when it is nilable; in both cases nothing else is
\* evaluated: no type check, child schema, refinement or super-refinement is
\* reached, and no constraint failure is reported. For a Struct schema a nil
\* pointer behaves exactly like nil.
C1_NilIsRequiredOrValid ==
    Done /\ NilInput =>
        /\ ~result.panicked
        /\ result.log = <<>>
        /\ IF schema.nilable
           THEN result.isNil /\ result.Errors = <<>>
           ELSE /\ ~result.isNil
                /\ Len(result.Errors) = 1
                /\ result.Errors[1].Code = ErrCodeRequired
                /\ result.Errors[1].Path = path
        /\ \E r \in Validate(schema, Nil, path) : Visible(r) = Visible(result)

\* nil was validated at a nested path by a schema that is not nilable and
\* has a refinement registered.
C1_Witness ==
    /\ Done /\ value = Nil /\ ~schema.nilable
    /\ schema.refinements # <<>> /\ path # <<>>
    /\ Len(result.Errors) = 1

\* C2: for every scalar schema, whatever constraints, refinements and
\* super-refinements it holds, validating a non-nil value of a different
\* primitive kind (an integer given to a Float schema and a float given to an
\* Int schema included) returns exactly one failure, with code invalid_type at
\* the given path; no constraint failure accompanies it and no refinement or
\* super-refinement is invoked.
C2_WrongKindIsOneInvalidType ==
    Done /\ schema.kind \in ScalarKinds /\ value # Nil /\ KindOf(value) # schema.kind =>
        /\ ~result.panicked /\ ~result.isNil
        /\ Len(result.Errors) = 1
        /\ result.Errors[1].Code = ErrCodeInvalidType
        /\ result.Errors[1].Path = path
        /\ result.log = <<>>

\* An integer was given to a Float schema that holds a refinement and a
\* super-refinement.
C2_Witness ==
    /\ Done /\ schema.kind = "float" /\ KindOf(value) = "int"
    /\ schema.refinements # <<>> /\ schema.superRefinements # <<>>
    /\ Len(result.Errors) = 1

\* C3: whatever the schema kind, the configuration and the input, a Validate
\* call that returns hands back either nil or a collection holding at least
\* one failure, never a collection that is present and empty; a composite
\* whose children all return nil and whose refinements emit nothing returns nil.
C3_NilOrNonEmpty ==
    Returned =>
        \/ result.isNil /\ result.Errors = <<>>
        \/ ~result.isNil /\ Len(result.Errors) >= 1

\* An Array schema with a refinement validated a sequence of two elements and
\* nothing failed.
C3_Witness ==
    /\ Done /\ schema.kind = "array" /\ value.t = "slice" /\ Len(value.v) >= 2
    /\ schema.refinements # <<>>
    /\ Len(HookCalls("refine")) >= 1
    /\ result.isNil

\* C4: for every schema that was built without a panic, with any constraint
\* arguments (Int().MultipleOf(d) for every int64 d included), and for every
\* input value, Validate returns normally and never panics.
C4_ValidateNeverPanics == Done => ~result.panicked

(***************************************************************************)
(* C5 .. C7: the children of a composite, missing keys, strict mode.       *)
(***************************************************************************)
\* The index of the element a failure below the root belongs to, or -1.
ElementOf(e) ==
    IF Len(e.Path) > Len(path) /\ IsPrefix(path, e.Path) /\ e.Path[Len(path) + 1].kind = "int"
    THEN e.Path[Len(path) + 1].idx
    ELSE -1

\* C5: for every call that returns, a composite schema validates every child
\* exactly once whatever fails elsewhere. An Array schema validating a
\* sequence of length n at path p validates the element schema once for each
\* index i in 0..n-1, in that order, with path p+[i]; a Map or Struct schema
\* validates each declared key k once with path p+[k] (a Map with the value
\* of k, or nil when the input lacks k); this holds even when an earlier
\* sibling or the node's own length constraints failed. The failures of every
\* child are in the result as the child produced them, and for an Array
\* grouped by element in increasing index order.
C5_EveryChildOnce ==
    /\ Returned /\ schema.kind = "array" /\ OwnKind =>
         LET n == Len(value.v)
             elementSchema == schema.elementSchema[1]
             elementPath(i) == path \o <<Index(i - 1)>>
         IN  /\ ChildCalls = [i \in 1..n |->
                                Event("validate", elementSchema.kind, elementPath(i), value.v[i])]
             /\ \A i \in 1..n :
                    Under(result.Errors, elementPath(i)) \in
                        { r.Errors : r \in Validate(elementSchema, value.v[i], elementPath(i)) }
             /\ \A j, k \in 1..Len(result.Errors) :
                    /\ ElementOf(result.Errors[j]) >= 0
                    /\ ElementOf(result.Errors[j]) < ElementOf(result.Errors[k])
                    => j < k
    /\ Returned /\ schema.kind \in {"object", "struct"} /\ OwnKind =>
         /\ Len(ChildCalls) = Cardinality(DOMAIN schema.shape)
         /\ \A k \in DOMAIN schema.shape :
                LET fieldPath == path \o <<Name(k)>>
                    calls_k == SelectSeq(ChildCalls, LAMBDA ev : ev.path = fieldPath)
                IN  /\ Len(calls_k) = 1
                    /\ calls_k[1].name = schema.shape[k].kind
                    /\ schema.kind = "object" =>
                           calls_k[1].val = IF k \in DOMAIN value.v THEN value.v[k] ELSE Nil
                    /\ Under(result.Errors, fieldPath) \in
                           { r.Errors : r \in Validate(schema.shape[k], calls_k[1].val, fieldPath) }

\* An Array schema validated a sequence of at least three elements: its own
\* length constraint failed, element 0 failed, and a later element failed too.
C5_Witness ==
    /\ Returned /\ schema.kind = "array" /\ value.t = "slice" /\ Len(value.v) >= 3
    /\ \E e \in {result.Errors[i] : i \in 1..Len(result.Errors)} :
           e.Path = path /\ e.Code = ErrCodeTooBig
    /\ Under(result.Errors, path \o <<Index(0)>>) # <<>>
    /\ Under(result.Errors, path \o <<Index(2)>>) # <<>>
    /\ Len(ChildCalls) = Len(value.v)

\* C6: for a Map schema with a declared key k and every call that returns,
\* validating an input that lacks k yields the same failures for k (same code, path, message) as
\* validating the same input with k present and mapped to nil: one required
\* failure at path p+[k] when the schema of k is not nilable, none when it is
\* nilable. When the Map schema holds no refinement, which could tell the two
\* inputs apart, the two results are the same as a whole.
C6_MissingKeyIsNilKey ==
    Returned /\ schema.kind = "object" /\ OwnKind =>
        \A k \in DOMAIN schema.shape \ DOMAIN value.v :
            LET fieldPath == path \o <<Name(k)>>
                withNil == MapV([x \in DOMAIN value.v \cup {k} |->
                                    IF x = k THEN Nil ELSE value.v[x]])
                mine == Under(result.Errors, fieldPath)
            IN  /\ \E r \in Validate(schema, withNil, path) :
                       ~r.panicked /\ Under(r.Errors, fieldPath) = mine
                /\ schema.refinements = <<>> /\ schema.superRefinements = <<>> =>
                       \E r \in Validate(schema, withNil, path) : Visible(r) = Visible(result)
                /\ IF schema.shape[k].nilable THEN mine = <<>>
                   ELSE /\ Len(mine) = 1
                        /\ mine[1].Code = ErrCodeRequired
                        /\ mine[1].Path = fieldPath

\* A Map schema validated an input that holds one declared key and lacks
\* another, whose schema is not nilable.
C6_Witness ==
    /\ Returned /\ schema.kind = "object" /\ value.t = "map"
    /\ \E k \in DOMAIN schema.shape \ DOMAIN value.v :
           /\ ~schema.shape[k].nilable
           /\ Under(result.Errors, path \o <<Name(k)>>) # <<>>
    /\ DOMAIN schema.shape \cap DOMAIN value.v # {}

\* The keys an input presents to a Map or Struct schema: the keys of the
\* map, the names of the exported members of the struct.
InputKeys ==
    IF schema.kind = "object" THEN DOMAIN value.v
    ELSE FieldMapNames(StructOf(value).v.fields)

\* The input without its undeclared keys.
DeclaredOnly ==
    IF schema.kind = "object"
    THEN MapV([x \in DOMAIN value.v \cap DOMAIN schema.shape |-> value.v[x]])
    ELSE StructV(StructOf(value).v.name,
                 SelectSeq(StructOf(value).v.fields,
                           LAMBDA f : ~IsExported(f) \/ getStructFieldName(f) \in DOMAIN schema.shape))

\* The unrecognized_keys failures the root reported for a key.
Unrecognized(key) ==
    SelectSeq(result.Errors,
              LAMBDA e : e.Code = ErrCodeUnrecognizedKeys /\ e.Path = path \o <<Name(key)>>)

\* C7: for every call of a Map or Struct schema at path p that returns: in
\* strict mode the result holds exactly one unrecognized_keys failure for each
\* key of the input (each exported struct member name) that the shape does
\* not declare, at path p+[key], and none for a declared key; in the default
\* mode the root emits no unrecognized_keys failure, and for a schema without
\* refinements the input yields the failures that the same input without its
\* undeclared keys yields.
C7_StrictAndDefault ==
    Returned /\ schema.kind \in {"object", "struct"} /\ OwnKind =>
        IF schema.strict
        THEN \A key \in InputKeys \cup DOMAIN schema.shape :
                 Len(Unrecognized(key)) =
                     IF key \in InputKeys \ DOMAIN schema.shape THEN 1 ELSE 0
        ELSE /\ \A i \in 1..Len(result.Errors) :
                    ~(/\ result.Errors[i].Code = ErrCodeUnrecognizedKeys
                      /\ Len(result.Errors[i].Path) = Len(path) + 1)
             /\ schema.refinements = <<>> /\ schema.superRefinements = <<>> =>
                    { Visible(r) : r \in Validate(schema, value, path) } =
                    { Visible(r) : r \in Validate(schema, DeclaredOnly, path) }

\* A strict Map schema validated an input that holds a declared key and two
\* undeclared ones.
C7_Witness ==
    /\ Returned /\ schema.kind = "object" /\ value.t = "map" /\ schema.strict
    /\ Cardinality(DOMAIN value.v \ DOMAIN schema.shape) >= 2
    /\ DOMAIN value.v \cap DOMAIN schema.shape # {}
    /\ \E key \in DOMAIN value.v : Len(Unrecognized(key)) = 1

(***************************************************************************)
(* C8 .. C10: built-in constraints, refinements, super-refinements.        *)
(***************************************************************************)
\* The built-in constraints of a schema kind, by the field that declares
\* them, in the order Validate checks them.
ConstraintsOf(kind) ==
    CASE kind = "string" ->
           << "minLength", "maxLength", "email", "url", "regex", "oneOf", "notOneOf",
              "startsWith", "endsWith", "includes" >>
      [] kind \in {"int", "float"} ->
           << "min", "max", "positive", "negative", "nonNegative", "nonPositive",
              "multipleOf" >>
      [] kind = "array" -> << "nonEmpty", "minLength", "maxLength" >>
      [] OTHER -> << >>

\* The codes of the failures of built-in constraints.
ConstraintCodes ==
    { ErrCodeTooSmall, ErrCodeTooBig, ErrCodeInvalidString, ErrCodeInvalidEnumValue,
      ErrCodeInvalidType }

\* The schema with its constraint c alone: no other constraint and no hook;
\* its messages, its nil handling and its element schema are kept.
Only(s, c) ==
    [ [ BaseSchema(s.kind) EXCEPT !.nilable = s.nilable,
                                  !.customErrors = s.customErrors,
                                  !.errorFormatter = s.errorFormatter,
                                  !.regexMessage = s.regexMessage,
                                  !.elementSchema = s.elementSchema ]
      EXCEPT ![c] = s[c] ]

\* The constraint failures a sequence of failures holds for the root.
OwnConstraintFailures(errs) ==
    SelectSeq(errs, LAMBDA e : e.Path = path /\ e.Code \in ConstraintCodes)

\* What constraint c alone reports for the input: the set of the sequences
\* of its failures, over the outcomes of the run.
Alone(c) ==
    { OwnConstraintFailures(r.Errors) : r \in Validate(Only(schema, c), value, path) }

\* C8: for a value of the schema's own kind and every call that returns, the
\* built-in constraints of a scalar or Array schema are evaluated
\* independently of each other: each declared constraint reports what it
\* reports when it is the only constraint of the schema, which is one failure
\* or none, whether or not another constraint of the node failed, and the
\* result holds these failures, in the order of the checks, and no other
\* constraint failure.
C8_ConstraintsIndependent ==
    Returned /\ schema.kind \in {"string", "int", "float", "array"} /\ OwnKind =>
        LET cs == ConstraintsOf(schema.kind)
        IN  /\ \A i \in 1..Len(cs) :
                   /\ Cardinality(Alone(cs[i])) = 1
                   /\ \A f \in Alone(cs[i]) : Len(f) <= 1
                   /\ schema[cs[i]] = BaseSchema(schema.kind)[cs[i]] => Alone(cs[i]) = {<<>>}
            /\ OwnConstraintFailures(result.Errors) =
                   Flat([i \in 1..Len(cs) |-> CHOOSE f \in Alone(cs[i]) : TRUE])

\* A node failed two of its constraints at once: an Int schema with Min and
\* Positive, or an Array schema with NonEmpty and Min.
C8_Witness ==
    /\ Returned /\ OwnKind
    /\ \/ schema.kind = "int" /\ schema.min # <<>> /\ schema.positive
       \/ schema.kind = "array" /\ schema.minLength # <<>> /\ schema.nonEmpty
    /\ Len(OwnConstraintFailures(result.Errors)) = 2
    /\ \A i \in 1..2 : OwnConstraintFailures(result.Errors)[i].Code = ErrCodeTooSmall

\* The refinements of the root that return false for the input.
FailingRefinements ==
    { i \in 1..Len(schema.refinements) : ~RefineFunc(schema.refinements[i], value).valid }

\* C9: for every call that returns, once the nil and type checks of a node
\* pass, every registered simple refinement is invoked exactly once, in
\* declaration order, with the raw input value; a failing refinement does not
\* stop later ones; each refinement that returns false contributes exactly one
\* failure with code custom_validation at the node's own path p, and each that
\* returns true contributes none. A scalar node has no custom_validation
\* failure at any other path.
C9_RefinementsOnceInOrder ==
    Returned /\ OwnKind =>
        /\ HookCalls("refine") =
               [i \in 1..Len(schema.refinements) |->
                   Event("refine", schema.refinements[i], path, value)]
        /\ Len(SelectSeq(result.Errors,
                         LAMBDA e : e.Code = ErrCodeCustomValidation /\ e.Path = path))
               = Cardinality(FailingRefinements)
        /\ schema.kind \in ScalarKinds =>
               \A i \in 1..Len(result.Errors) :
                   result.Errors[i].Code = ErrCodeCustomValidation => result.Errors[i].Path = path

\* Two refinements were registered; the first failed and the second was
\* invoked all the same, at a nested path.
C9_Witness ==
    /\ Returned /\ OwnKind /\ path # <<>>
    /\ Len(schema.refinements) = 2 /\ 1 \in FailingRefinements
    /\ Len(HookCalls("refine")) = 2
    /\ \E i \in 1..Len(result.Errors) : result.Errors[i].Code = ErrCodeCustomValidation

\* The issues the super-refinements of the root add for the input, in call
\* order.
Issued ==
    Flat([i \in 1..Len(schema.superRefinements) |->
             SuperRefineFunc(schema.superRefinements[i], value)])

\* C10: for every call that returns and every super-refinement of a schema
\* validated at path p, each AddIssue(rel, code, msg) or
\* AddIssueWithMeta(rel, code, msg, meta) call appends exactly one failure
\* whose path is p followed by the segments of rel and whose code (inside the
\* built-in set or not), message and meta are those supplied; the issues
\* appear in call order, at the end of the result, and a super-refinement may
\* emit none, one or many. Every super-refinement is invoked once, in
\* declaration order.
C10_IssuesAsSupplied ==
    Returned /\ OwnKind =>
        LET n == Len(Issued)
            m == Len(result.Errors)
        IN  /\ m >= n
            /\ \A j \in 1..n :
                   result.Errors[m - n + j] =
                       [ Path |-> path \o Issued[j].rel, Code |-> Issued[j].code,
                         Message |-> Issued[j].message, Meta |-> Issued[j].meta ]
            /\ HookCalls("superRefine") =
                   [i \in 1..Len(schema.superRefinements) |->
                       Event("superRefine", schema.superRefinements[i], path, value)]

\* A super-refinement that adds three issues, one of them with meta and one
\* with a code outside the built-in set, ran at a nested path.
C10_Witness ==
    /\ Returned /\ OwnKind /\ path # <<>>
    /\ \E i \in 1..Len(schema.superRefinements) : schema.superRefinements[i] = "many"
    /\ \E i \in 1..Len(result.Errors) :
           /\ result.Errors[i].Code \notin BuiltinCodes
           /\ Len(result.Errors[i].Path) > Len(path)
    /\ \E i \in 1..Len(result.Errors) : ~result.Errors[i].Meta.isNil

(***************************************************************************)
(* C11 .. C13: when the refinements run, the order of the failures.        *)
(***************************************************************************)
\* The custom_validation failures the result holds at the root's own path.
OwnCustomFailures ==
    SelectSeq(result.Errors, LAMBDA e : e.Code = ErrCodeCustomValidation /\ e.Path = path)

\* C11, as claimed: a simple refinement of a node is evaluated only after
\* the node's type check and all of its built-in constraints have passed;
\* whenever a built-in constraint of the node fails, no simple refinement of
\* that node is invoked and the result holds no custom_validation failure
\* from that node.
C11_NoRefinementAfterConstraintFailure ==
    Done /\ OwnKind /\ OwnConstraintFailures(result.Errors) # <<>> =>
        HookCalls("refine") = <<>> /\ OwnCustomFailures = <<>>

\* C11, amended: a simple refinement of a node is evaluated only after the
\* node's type check has passed, and then whether or not built-in constraints
\* failed: a value of another kind invokes no refinement, and in a returned
\* result that holds a constraint failure of the node every refinement was
\* still invoked and every failing one added its custom_validation failure.
C11_RefinementsAfterTypeCheckOnly ==
    /\ Done /\ ~NilInput /\ ~OwnKind =>
           HookCalls("refine") = <<>> /\ OwnCustomFailures = <<>>
    /\ Returned /\ OwnKind /\ OwnConstraintFailures(result.Errors) # <<>> =>
           /\ Len(HookCalls("refine")) = Len(schema.refinements)
           /\ Len(OwnCustomFailures) = Cardinality(FailingRefinements)

\* A node failed a built-in constraint and its refinement was invoked and
\* failed as well.
C11_Witness ==
    /\ Returned /\ OwnKind
    /\ OwnConstraintFailures(result.Errors) # <<>>
    /\ HookCalls("refine") # <<>>
    /\ OwnCustomFailures # <<>>

\* The place of a failure among those the root contributes before its hooks:
\* 1 for a built-in check of the root, 2 for a child, 3 for an unrecognized key.
PhaseOf(e) ==
    IF e.Path = path THEN 1
    ELSE IF /\ schema.kind \in {"object", "struct"}
            /\ e.Code = ErrCodeUnrecognizedKeys
            /\ Len(e.Path) = Len(path) + 1
            /\ e.Path[Len(path) + 1].name \notin DOMAIN schema.shape
         THEN 3
         ELSE 2

\* The failures the simple refinements of the root add for the input, in
\* declaration order.
RefinementFailures ==
    Flat([i \in 1..Len(schema.refinements) |->
             applyRefinement(schema, schema.refinements[i], value, path, NewErrors).Errors])

\* C12: within the failures a node contributes to a returned collection the
\* order is fixed: first its built-in constraint failures (for an Array its
\* length failures), then its children's failures (for a Map or Struct the
\* declared fields, then the unrecognized keys of strict mode), then the
\* simple-refinement failures in declaration order, then the super-refinement
\* failures in declaration and call order; the order in which Refine and
\* SuperRefine were called on the builder plays no part.
C12_FailureOrder ==
    Returned /\ OwnKind =>
        LET m == Len(result.Errors)
            nSuper == Len(Issued)
            nRefine == Len(RefinementFailures)
            nBefore == m - nSuper - nRefine
        IN  /\ nBefore >= 0
            /\ \A i, j \in 1..nBefore :
                   i < j => PhaseOf(result.Errors[i]) <= PhaseOf(result.Errors[j])
            /\ \A i \in 1..nBefore :
                   PhaseOf(result.Errors[i]) = 1 => result.Errors[i].Code \in ConstraintCodes
            /\ SubSeq(result.Errors, nBefore + 1, nBefore + nRefine) = RefinementFailures
            /\ \A j \in 1..nSuper :
                   /\ result.Errors[nBefore + nRefine + j].Path = path \o Issued[j].rel
                   /\ result.Errors[nBefore + nRefine + j].Code = Issued[j].code

\* An Array schema with a refinement and a super-refinement: a child failed,
\* the refinement failed, and the super-refinement added issues.
C12_Witness ==
    /\ Returned /\ schema.kind = "array" /\ OwnKind
    /\ \E i \in 1..Len(result.Errors) : PhaseOf(result.Errors[i]) = 2
    /\ RefinementFailures # <<>>
    /\ Issued # <<>>
    /\ Len(result.Errors) >= 3

\* The outcomes of validating the same value against the same schema again
\* that return.
Again == { r \in Validate(schema, value, path) : ~r.panicked }

\* The number of entries of a sequence equal to e.
CountOf(seq, e) == Cardinality({ i \in 1..Len(seq) : seq[i] = e })

\* Two sequences hold the same entries the same number of times.
SameBag(s1, s2) ==
    /\ Len(s1) = Len(s2)
    /\ \A i \in 1..Len(s1) : CountOf(s1, s1[i]) = CountOf(s2, s1[i])

\* The failures of the declared fields: what the root contributes before its
\* hooks, less its unrecognized keys.
FieldFailures(errs) ==
    LET nBefore == Len(errs) - Len(Issued) - Len(RefinementFailures)
    IN  SelectSeq(SubSeq(errs, 1, nBefore), LAMBDA e : PhaseOf(e) = 2)

\* The declared field a field failure belongs to.
FieldOf(e) == e.Path[Len(path) + 1].name

\* C13, as claimed: for Map and Struct schemas, validating the same value
\* against the same schema twice returns the same failure sequence.
C13_SameSequenceTwice ==
    Returned /\ schema.kind \in {"object", "struct"} =>
        \A r \in Again : r.Errors = result.Errors

\* C13, amended: for Map and Struct schemas the failures of each declared
\* field are contiguous in the returned collection, but the fields appear in
\* the order the validation visits them, which is not fixed: validating the
\* same value against the same schema twice returns the same failures the
\* same number of times, not necessarily in the same sequence.
C13_FieldsContiguousSameBag ==
    Returned /\ schema.kind \in {"object", "struct"} /\ OwnKind =>
        LET ff == FieldFailures(result.Errors)
        IN  /\ \A i, j, k \in 1..Len(ff) :
                   i < j /\ j < k /\ FieldOf(ff[i]) = FieldOf(ff[k]) =>
                       FieldOf(ff[j]) = FieldOf(ff[i])
            /\ \A e \in { ff[i] : i \in 1..Len(ff) } : FieldOf(e) \in DOMAIN schema.shape
            /\ \A r \in Again : SameBag(r.Errors, result.Errors)

\* Two declared fields failed, one of them more than once, and validating
\* again can return the same failures in another sequence.
C13_Witness ==
    /\ Returned /\ schema.kind \in {"object", "struct"} /\ OwnKind
    /\ Cardinality({ FieldOf(e) : e \in { FieldFailures(result.Errors)[i] :
                                            i \in 1..Len(FieldFailures(result.Errors)) } }) = 2
    /\ Len(FieldFailures(result.Errors)) >= 3
    /\ \E r \in Again : r.Errors # result.Errors

(***************************************************************************)
(* C14 .. C16: the messages.                                               *)
(***************************************************************************)
\* The schema with no message override, no formatter and no hooks: its
\* built-in checks produce their default messages.
Plain(s) ==
    [s EXCEPT !.customErrors = {}, !.errorFormatter = <<>>,
              !.refinements = <<>>, !.superRefinements = <<>>]

\* The number of failures the root's hooks added: they run once the nil and
\* type checks have passed.
HookFailures == IF OwnKind THEN Len(Issued) + Len(RefinementFailures) ELSE 0

\* The failures of the root's built-in checks in a collection: what the root
\* contributes before its hooks, less its children's failures.
OwnBuiltIn(errs, hooks) ==
    SelectSeq(SubSeq(errs, 1, Len(errs) - hooks), LAMBDA e : PhaseOf(e) \in {1, 3})

\* The failure is the one of a Regex check that was given a message.
IsRegexWithMessage(e) ==
    /\ schema.kind = "string" /\ schema.regexMessage # ""
    /\ e.Code = ErrCodeInvalidString /\ e.Message = schema.regexMessage

\* The message the claim gives a built-in failure whose default message is d.
ClaimedMessage(p, c, d) ==
    IF schema.errorFormatter # <<>> THEN CustomErrorFunc(schema.errorFormatter[1], p, c, d)
    ELSE IF \E o \in schema.customErrors : o.code = c
         THEN (CHOOSE o \in schema.customErrors : o.code = c).message
         ELSE d

\* C14: a failure of a built-in check with code c, path p and default message
\* d carries formatter(p, c, d) when the schema has a formatter, else the
\* CustomError message registered for c when there is one, else d; the one
\* exception is a Regex check that was given its own message, which carries
\* that message whatever else is configured.  (Of calls that return.)
C14_BuiltInMessagePriority ==
    Returned =>
        \E r \in Validate(Plain(schema), value, path) :
            /\ ~r.panicked
            /\ LET own == OwnBuiltIn(result.Errors, HookFailures)
                   def == OwnBuiltIn(r.Errors, 0)
               IN  /\ Len(own) = Len(def)
                   /\ \A i \in 1..Len(own) :
                          /\ own[i].Code = def[i].Code
                          /\ own[i].Path = def[i].Path
                          /\ own[i].Message =
                                 IF IsRegexWithMessage(def[i]) THEN schema.regexMessage
                                 ELSE ClaimedMessage(def[i].Path, def[i].Code, def[i].Message)

\* A schema with both a formatter and an override for required failed its
\* required check on nil.
C14_Witness ==
    /\ Returned /\ NilInput
    /\ schema.errorFormatter # <<>>
    /\ \E o \in schema.customErrors : o.code = ErrCodeRequired
    /\ \E i \in 1..Len(result.Errors) : result.Errors[i].Code = ErrCodeRequired

\* The messages the failing refinements of the root return, in declaration
\* order.
RefinementMessages ==
    Flat([i \in 1..Len(schema.refinements) |->
             IF RefineFunc(schema.refinements[i], value).valid THEN <<>>
             ELSE <<RefineFunc(schema.refinements[i], value).message>>])

\* C15: a failing refinement that returns a non-empty message m contributes a
\* custom_validation failure whose message is exactly m, even when the schema
\* has a CustomError override for custom_validation or a formatter.
C15_RefinementMessageVerbatim ==
    Returned /\ OwnKind =>
        /\ Len(OwnCustomFailures) = Len(RefinementMessages)
        /\ \A i \in 1..Len(RefinementMessages) :
               RefinementMessages[i] # "" =>
                   OwnCustomFailures[i].Message = RefinementMessages[i]

\* C16: every failure in every returned collection has a non-empty message
\* and a non-empty code, for every configuration of the schema: any
\* CustomError entries, any formatter, any super-refinement issues.
C16_MessageAndCodeNonEmpty ==
    Returned =>
        \A i \in 1..Len(result.Errors) :
            result.Errors[i].Message # "" /\ result.Errors[i].Code # ""

(***************************************************************************)
(* C17: the builders.                                                      *)
(***************************************************************************)
\* The schema as its constructor made it.
Constructed(s) ==
    CASE s.kind = "string" -> String
      [] s.kind = "int" -> IntSchema
      [] s.kind = "float" -> Float
      [] s.kind = "bool" -> Bool
      [] s.kind = "array" -> Array(s.elementSchema[1])
      [] s.kind = "object" -> Map(s.shape)
      [] s.kind = "struct" -> Struct(s.shape)

\* A step is a builder call that returned.
BuilderCall == pc = "build" /\ pc' = "build" /\ calls' = calls + 1

\* C17, as claimed: schemas are immutable value builders: a builder call on
\* a schema s leaves the behaviour of s unchanged (s validates every value as
\* it did before the call) and only the returned reference carries the new
\* constraint.
C17_ReceiverBehavesAsBefore ==
    [][BuilderCall =>
          \A v \in ValuesFor(schema.kind), p \in Paths :
              Validate(receiver', v, p) = Validate(schema, v, p)]_vars

\* C17, amended: schemas are mutable builders: a builder call on a schema s
\* changes s in place and returns s itself, so that after the call s and the
\* returned reference are the same schema and both carry the new constraint.
C17_ReceiverIsReturned == receiver = schema

\* Two builder calls were made and the schema behind the first reference
\* validates a value otherwise than the schema the constructor made.
C17_Witness ==
    /\ Returned /\ calls = 2
    /\ receiver # Constructed(receiver)
    /\ result \notin Validate(Constructed(receiver), value, path)
    /\ result \in Validate(receiver, value, path)

(***************************************************************************)
(* C20: Flatten.                                                           *)
(***************************************************************************)
Flattened == pc = "flattened"

\* The key the claim files a failure with a non-empty path under: the
\* rendering of the segments before the first index segment, or of the whole
\* path when it has no index segment.
RECURSIVE BeforeFirstIndex(_)
BeforeFirstIndex(p) ==
    IF p = <<>> \/ p[1].kind = "int" THEN <<>>
    ELSE <<p[1]>> \o BeforeFirstIndex(Tail(p))

ClaimedKey(p) == PathToString(BeforeFirstIndex(p))

\* The messages of the failures that satisfy a test, in order.
MessagesOf(errs) == [i \in 1..Len(errs) |-> errs[i].Message]

\* C20: Flatten places the message of every failure exactly once: in
\* FormErrors if and only if the failure's path is empty, otherwise in
\* FieldErrors under the key that renders the segments before the first index
\* segment (the whole rendered path when there is no index segment); the
\* messages keep their order within each list and none is lost or added.
C20_FlattenByIndexSegment ==
    Flattened =>
        /\ flat.FormErrors =
               MessagesOf(SelectSeq(result.Errors, LAMBDA e : e.Path = <<>>))
        /\ DOMAIN flat.FieldErrors =
               { ClaimedKey(result.Errors[i].Path) :
                     i \in { j \in 1..Len(result.Errors) : result.Errors[j].Path # <<>> } }
        /\ \A key \in DOMAIN flat.FieldErrors :
               flat.FieldErrors[key] =
                   MessagesOf(SelectSeq(result.Errors,
                                        LAMBDA e : e.Path # <<>> /\ ClaimedKey(e.Path) = key))

(***************************************************************************)
(* C19: omitempty.                                                         *)
(***************************************************************************)
\* The pieces of a text between its commas.
RECURSIVE SplitComma(_)
SplitComma(str) ==
    IF IndexOf(str, ",") = -1 THEN <<str>>
    ELSE <<SubSeq(str, 1, IndexOf(str, ","))>>
             \o SplitComma(SubSeq(str, IndexOf(str, ",") + 2, Len(str)))

\* The json tag of the member carries the omitempty option: one of the
\* options that follow the name is omitempty.
HasOmitemptyOption(field) ==
    \E i \in 2..Len(SplitComma(field.Tag)) : SplitComma(field.Tag)[i] = omitemptyWord

\* The value of a member: nil for a nil pointer, else what it holds.
MemberValue(field) == IF field.IsPtr /\ field.Value = Nil THEN Nil ELSE field.Value

\* The members of the input struct that the shape declares.
DeclaredMembers ==
    { k \in DOMAIN schema.shape : k \in FieldMapNames(StructOf(value).v.fields) }

\* C19: when a Struct schema validates a member, a member whose tag carries
\* the omitempty option and whose value is the zero value of its type is
\* validated as nil (as a missing member is), and a member without the
\* omitempty option is validated with its actual value, zero or not.
C19_OmitemptyOptionOnly ==
    Returned /\ schema.kind = "struct" /\ OwnKind =>
        \A k \in DeclaredMembers :
            LET field == FieldMapGet(StructOf(value).v.fields, k)
                calls_k == SelectSeq(ChildCalls, LAMBDA ev : ev.path = path \o <<Name(k)>>)
            IN  /\ Len(calls_k) = 1
                /\ calls_k[1].val =
                       IF HasOmitemptyOption(field) /\ isEmptyValue(MemberValue(field))
                       THEN Nil
                       ELSE MemberValue(field)

(***************************************************************************)
(* C18: concurrent Validate calls.                                         *)
(***************************************************************************)
\* What the call of goroutine t returns when it runs alone.
AloneOutcomes(t) ==
    { Visible(r) : r \in Validate(schema, threads[t].value, threads[t].path) }

\* C18: Validate never modifies the schema tree, and any number of Validate
\* calls running at the same time on one schema each return what they return
\* when run alone: no step of a call changes the schema, and the result of a
\* call that has ended is one of the outcomes of the same call in isolation,
\* with no failure of another call in it and none of its own lost.
C18_ConcurrentCallsIsolated ==
    [][ /\ schema' = schema
        /\ \A t \in Threads :
               threads'[t].pc = "done" /\ threads[t].pc # "done" =>
                   Visible(threads'[t].result) \in AloneOutcomes(t) ]_vars

\* Two calls that ran at the same time on a schema with hooks have ended with
\* different failures, each holding failures of its own hooks.
C18_Witness ==
    /\ pc = "shared"
    /\ \A t \in Threads : threads[t].pc = "done" /\ threads[t].overlapped = (t = 2)
    /\ threads[1].result.Errors # <<>>
    /\ threads[2].result.Errors # <<>>
    /\ threads[1].result.Errors # threads[2].result.Errors
    /\ schema.refinements # <<>> /\ schema.superRefinements # <<>>
    /\ Len(collections) = 2

(***************************************************************************)
(* C25 .. C27: numbers and the code invalid_type.                          *)
(***************************************************************************)
\* The failures of the root's built-in checks with one code.
OwnBuiltInWith(code) ==
    SelectSeq(OwnBuiltIn(result.Errors, HookFailures), LAMBDA e : e.Code = code)

\* 1 when the condition holds, else 0.
OneIf(cond) == IF cond THEN 1 ELSE 0

\* C25: an Int schema accepts every value of every integer type as
\* type-correct and applies Min, Max and the sign constraints to the value's
\* mathematical magnitude: for an unsigned input u, NonNegative never fails,
\* Positive fails only for u = 0, Min(m) fails exactly when u < m (and Max and
\* the other sign constraints likewise), also for inputs above the largest
\* int64.
C25_UnsignedByMagnitude ==
    Returned /\ schema.kind = "int" /\ value.t \in UnsignedKinds =>
        LET u == value.v
        IN  /\ \E k \in 1..Len(result.log) : result.log[k].op = "typed"
            /\ Len(OwnBuiltInWith(ErrCodeTooSmall)) =
                   OneIf(schema.min # <<>> /\ u < schema.min[1])
                   + OneIf(schema.positive /\ u = 0)
            /\ Len(OwnBuiltInWith(ErrCodeTooBig)) =
                   OneIf(schema.max # <<>> /\ u > schema.max[1])
                   + OneIf(schema.negative)
                   + OneIf(schema.nonPositive /\ u > 0)

\* The quotient v / d is farther than the tolerance from every integer: the
\* fractional part of its magnitude lies strictly inside (0.0001, 0.9999).
FarFromInteger(v, d) ==
    LET frac == Abs(v) % Abs(d)
    IN  frac * TolDen > TolLow * Abs(d) /\ frac * TolDen < TolHigh * Abs(d)

\* C26: a Float schema with MultipleOf(d), d not zero, emits its failure for
\* a float value v if and only if the fractional part of v / d is farther
\* than the tolerance from both 0 and 1, for negative v exactly as for
\* positive v.
C26_MultipleOfBySign ==
    Returned /\ schema.kind = "float" /\ OwnKind
             /\ schema.multipleOf # <<>> /\ schema.multipleOf # <<0>> =>
        (OwnBuiltInWith(ErrCodeInvalidType) # <<>>
             <=> FarFromInteger(value.v, schema.multipleOf[1]))

\* C27: a scalar schema emits a failure with code invalid_type only when its
\* type check fails: when the value has the schema's own kind no built-in
\* failure of the node carries invalid_type, and an invalid_type failure of
\* the node never comes with refinement or super-refinement failures of the
\* same node.
C27_InvalidTypeOnlyFromTypeCheck ==
    Returned /\ schema.kind \in ScalarKinds =>
        /\ OwnKind => OwnBuiltInWith(ErrCodeInvalidType) = <<>>
        /\ OwnBuiltInWith(ErrCodeInvalidType) # <<>> =>
               HookCalls("refine") = <<>> /\ HookCalls("superRefine") = <<>>

(***************************************************************************)
(* C28 .. C30: chained Regex, path prefixes, per-node messages.            *)
(***************************************************************************)
\* The schema validates the string with a failure of code invalid_string
\* that carries the message.
RejectsWith(s, str, message) ==
    \A r \in Validate(s, Str(str), <<>>) :
        \E i \in 1..Len(r.Errors) :
            r.Errors[i].Code = ErrCodeInvalidString /\ r.Errors[i].Message = message

\* C28: Regex constraints accumulate when chained: a pattern p1 given with a
\* message m1 is still enforced after a later builder call, another Regex
\* call included, so that after Regex(p1, m1).Regex(p2, m2) a string that does
\* not match p1 still yields an invalid_string failure with message m1.
C28_RegexAccumulates ==
    [][BuilderCall /\ schema.kind = "string" /\ schema.regex # <<>>
           /\ schema.regexMessage # "" =>
          \A str \in { v.v : v \in StringValues } :
              ~MatchString(schema.regex[1], str) =>
                  RejectsWith(schema', str, schema.regexMessage)]_vars

\* The schema of the child a composite validates at a path.
ChildSchema(q) ==
    IF schema.kind = "array" THEN schema.elementSchema[1]
    ELSE schema.shape[q[Len(q)].name]

\* C29: for every schema tree, input and initial path p, empty or
\* pre-seeded, every failure of a returned result has p as a prefix of its
\* path; a child is validated at p+[k] or p+[i], every failure emitted while
\* validating it has that path as a prefix, failures added by the child's
\* super-refinements included, and every failure the children contribute is
\* under the path of one of them.
C29_PathsExtendInitialPath ==
    Returned =>
        /\ \A i \in 1..Len(result.Errors) : IsPrefix(path, result.Errors[i].Path)
        /\ OwnKind /\ schema.kind \in CompositeKinds =>
               /\ \A c \in 1..Len(ChildCalls) :
                      LET q == ChildCalls[c].path
                      IN  /\ Len(q) = Len(path) + 1 /\ IsPrefix(path, q)
                          /\ \A r \in Validate(ChildSchema(q), ChildCalls[c].val, q) :
                                 \A i \in 1..Len(r.Errors) : IsPrefix(q, r.Errors[i].Path)
               /\ \A i \in 1..Len(FieldFailures(result.Errors)) :
                      \E c \in 1..Len(ChildCalls) :
                          IsPrefix(ChildCalls[c].path, FieldFailures(result.Errors)[i].Path)

\* A Map or Struct schema validated at a pre-seeded path has a field whose
\* super-refinement added an issue below the field's path.
C29_Witness ==
    /\ Returned /\ OwnKind /\ schema.kind \in {"object", "struct"} /\ path # <<>>
    /\ \E i \in 1..Len(result.Errors) :
           /\ result.Errors[i].Code = "mismatch"
           /\ Len(result.Errors[i].Path) = Len(path) + 2
           /\ IsPrefix(path \o <<Name("name")>>, result.Errors[i].Path)

\* The schema with the message configuration of its root removed.
Unconfigured(s) == [s EXCEPT !.customErrors = {}, !.errorFormatter = <<>>]

\* C30: message configuration is per schema node: the CustomError overrides
\* and the formatter of a composite affect only the failures the composite
\* itself emits; the failures its children contribute are, messages
\* included, those the children contribute when the composite has no message
\* configuration at all.  (Of calls that return.)
C30_MessagesPerNode ==
    Returned /\ OwnKind /\ schema.kind \in CompositeKinds =>
        \E r \in Validate(Unconfigured(schema), value, path) :
            /\ ~r.panicked
            /\ FieldFailures(r.Errors) = FieldFailures(result.Errors)

\* A composite with an override for required or a formatter has a child that
\* failed its own required check with the child's default message.
C30_Witness ==
    /\ Returned /\ OwnKind /\ schema.kind \in CompositeKinds
    /\ schema.errorFormatter # <<>> \/ \E o \in schema.customErrors : o.code = ErrCodeRequired
    /\ \E i \in 1..Len(FieldFailures(result.Errors)) :
           /\ FieldFailures(result.Errors)[i].Code = ErrCodeRequired
           /\ FieldFailures(result.Errors)[i].Message = "Required"


(***************************************************************************)
(* C21 .. C24: the path helpers and the stored failures.                   *)
(***************************************************************************)
\* The slices a caller holds: its path and the results of PathAppend.
HeldSlices == {caller.path} \cup {results[k].slice : k \in 1..Len(results)}

PathAppended == Len(results') = Len(results) + 1

\* C21: PathAppend(p, x) returns a slice of length len(p) + 1 whose first
\* segments are those of p and whose last is x; p keeps its elements; the
\* result has a backing array that neither p nor an earlier result uses;
\* earlier results keep their elements, and a write into one held slice
\* changes the elements of no other.
C21_PathAppendFresh ==
    [][ /\ PathAppended =>
              LET r == results'[Len(results')]
              IN  /\ r.slice.len = caller.path.len + 1
                  /\ Elems(arrays', r.slice)
                       = Elems(arrays, caller.path) \o <<r.part>>
                  /\ caller' = caller
                  /\ \A s \in HeldSlices :
                         /\ Elems(arrays', s) = Elems(arrays, s)
                         /\ s.arr # r.slice.arr
        /\ \A s, t \in HeldSlices :
              /\ Elems(arrays', s) # Elems(arrays, s)
              /\ Elems(arrays', t) # Elems(arrays, t)
              => s = t
      ]_vars

\* Two results of PathAppend on one path that has room in its backing array.
C21_Witness ==
    /\ pc = "storage"
    /\ Len(results) = 2
    /\ results[1].part # results[2].part
    /\ caller.path.len > 0
    /\ caller.path.cap > caller.path.len
    /\ Elems(arrays, results[1].slice)
         = Elems(arrays, caller.path) \o <<results[1].part>>

\* The two kinds of segment the specification knows.
SegmentKind(seg) == IF seg.kind = "string" THEN "name" ELSE "index"

SameSegment(x, y) ==
    /\ SegmentKind(x) = SegmentKind(y)
    /\ x.name = y.name
    /\ x.idx = y.idx

ClaimedEqual(p, q) ==
    /\ Len(p) = Len(q)
    /\ \A i \in 1..Len(p) : SameSegment(p[i], q[i])

\* C22: PathEqual(a, b) is true exactly when a and b have the same length
\* and, at every position, segments of the same kind and value; it is
\* reflexive and symmetric, and the nil path equals the empty path.
C22_PathEqualByKindAndValue ==
    fn = "PathEqual" =>
        /\ out.equal = ClaimedEqual(args.path1.elems, args.path2.elems)
        /\ args.path1.elems = args.path2.elems => out.equal
        /\ out.equal = PathEqual(args.path2, args.path1)
        /\ (args.path1 = NilPath /\ args.path2 = SliceOf(<<>>)) => out.equal

RECURSIVE ClaimedText(_, _)
ClaimedText(p, i) ==
    IF i > Len(p) THEN ""
    ELSE (IF p[i].kind = "string"
          THEN (IF i = 1 THEN "" ELSE ".") \o p[i].name
          ELSE "[" \o ToString(p[i].idx) \o "]") \o ClaimedText(p, i + 1)

\* C23: PathToString renders the empty path as "", an index segment n as
\* "[n]" with no separator, and a name segment as its text, preceded by "."
\* unless it is the first segment.
C23_PathToStringJoins ==
    fn = "PathToString" => out.text = ClaimedText(args.path1.elems, 1)

\* A stored failure as a reader sees it.
FailureAt(arrs, mps, e) ==
    [ Path |-> Elems(arrs, e.Path), Code |-> e.Code, Message |-> e.Message,
      Meta |-> IF e.Meta = 0 THEN NoMeta ELSE Meta(mps[e.Meta]) ]

\* C24: the path, code, message and meta of a stored failure do not change
\* when the caller writes into the path slice or the meta map it passed, nor
\* when further failures are added.
C24_FailuresImmutable ==
    [][ \A i \in 1..Len(stored) :
            /\ i <= Len(stored')
            /\ FailureAt(arrays', maps', stored'[i])
                 = FailureAt(arrays, maps, stored[i]) ]_vars

====
